---- MODULE Spec2Model ----
\* A model of the AV1 frame decoder of av1/decoder/decodeframe.c: the
\* uncompressed-header parser with its reference-slot bookkeeping, the
\* recursive partition walk, tile location and decoding, the in-loop
\* filter pipeline, the lossless decision of the quantiser header, the
\* corrupted flag of the superblock rows, the entropy contexts with the
\* frames output, the global motion of the references, the coefficient
\* buffer of a plane, the lock of the buffer pool, the frame ids and the
\* variable transform sizes of an inter block.  Each sub-system has
\* its own specification over the shared variables; the variables a
\* specification does not use stay at their initial values.
EXTENDS Integers, Sequences, FiniteSets, TLC

\* ------------------------------------------------------------------
\* Program constants
\* ------------------------------------------------------------------
REF_FRAMES == 8
INTER_REFS_PER_FRAME == 7
INVALID_IDX == 0 - 1
PRIMARY_REF_NONE == 7
ALL_REFRESH == (2 ^ REF_FRAMES) - 1

\* ------------------------------------------------------------------
\* Bounds of the model
\* ------------------------------------------------------------------
\* frames handed to the decoder in one behaviour
MaxFrames == 2
\* size of the frame-buffer pool
NumFrameBufs == 18
\* the largest refresh mask a header of the model carries in its
\* refresh_frame_flags field
MaxMask == 1

Slots == 0 .. (REF_FRAMES - 1)
Bufs == 0 .. (NumFrameBufs - 1)
FrameTypes == {"KEY_FRAME", "INTER_FRAME", "INTRA_ONLY_FRAME", "S_FRAME"}

Bit(m, i) == (m \div (2 ^ i)) % 2

RECURSIVE PopCount(_)
PopCount(m) == IF m = 0 THEN 0 ELSE (m % 2) + PopCount(m \div 2)

\* the refresh masks the model reads from a header
MaskInputs == 0 .. MaxMask

\* the reference slots a header of the model selects
RefBases == {0, REF_FRAMES - 1}

VARIABLES
  pc,                  \* position of the decoder in the frame's life cycle
  cm,                  \* scalar fields of AV1_COMMON
  pbi,                 \* scalar fields of AV1Decoder
  ref_frame_map,       \* cm->ref_frame_map
  next_ref_frame_map,  \* cm->next_ref_frame_map
  frame_refs,          \* cm->frame_refs[i].idx
  frame_bufs,          \* pool->frame_bufs
  error_code,          \* cm->error.error_code after aom_internal_error
  neg_index,           \* frame_bufs has been indexed with -1
  nframes              \* frames received so far

refVars == <<pc, cm, pbi, ref_frame_map, next_ref_frame_map, frame_refs,
             frame_bufs, error_code, neg_index, nframes>>

VARIABLES
  part_pc,             \* "off", "walk", "done" or "error"
  part_cm,             \* mi_rows, mi_cols and the chroma subsampling
  part_root,           \* the region the walk started from
  part_stack,          \* pending calls of the recursion, innermost first
  part_cover,          \* per mode-info unit, the decode_block calls covering it
  part_read            \* what the last decode_partition call read and chose

partVars == <<part_pc, part_cm, part_root, part_stack, part_cover, part_read>>

VARIABLES
  tile_pc,             \* position of the frame's tile decoding and wrap-up
  tile_cm,             \* fields of AV1_COMMON read by decode_tiles and wrap-up
  tile_pbi,            \* fields of AV1Decoder read by decode_tiles
  tile_buffers,        \* pbi->tile_buffers entries written by the current call
  tile_data,           \* pbi->tile_data[i]: the state of its tile context
  tg,                  \* the current av1_decode_tg_tiles_and_wrapup call
  fc,                  \* *cm->fc
  frame_contexts,      \* cm->frame_contexts[cm->new_fb_idx]
  decoded,             \* tiles whose decode_tile has returned in this frame
  stages,              \* the in-loop filter stages run on this frame, in order
  oversize             \* a size field of this call exceeded the bytes left

tileVars == <<tile_pc, tile_cm, tile_pbi, tile_buffers, tile_data, tg, fc,
              frame_contexts, decoded, stages, oversize>>

VARIABLES
  q_pc,                \* "off", "new", "blocks" or "done"
  q_cm,                \* quantiser, segmentation and filter fields of AV1_COMMON
  q_xd,                \* xd->lossless[] and xd->qindex[]
  q_hdr,               \* the quantiser fields the current header carried
  q_tx,                \* the transform sizes read_tx_size has returned
  q_stages             \* the in-loop filter stages run on this frame

quantVars == <<q_pc, q_cm, q_xd, q_hdr, q_tx, q_stages>>

VARIABLES
  sb_pc,               \* "off", "new", "call", "block", "wrapup", "done", "error"
  sb_cm,               \* pbi->inv_tile_order and the frames set up so far
  sb_td,               \* pbi->tile_data[i].xd.corrupted
  sb_mb,               \* pbi->mb.corrupted
  sb_tg,               \* startTile, endTile and the tiles left to decode
  sb_pos,              \* the tile, superblock row and block being decoded
  sb_error             \* cm->error.error_code after aom_internal_error

sbVars == <<sb_pc, sb_cm, sb_td, sb_mb, sb_tg, sb_pos, sb_error>>

VARIABLES
  ctx_pc,              \* "off", "idle", "setup", "shown", "decoded" or "error"
  ctx_cm,              \* fields of AV1_COMMON the contexts and the output read
  ctx_pbi,             \* refresh_frame_flags, hold_ref_buf, need_resync, mb.cur_buf
  ctx_map,             \* cm->ref_frame_map
  ctx_next_map,        \* cm->next_ref_frame_map
  ctx_bufs,            \* pool->frame_bufs with the pixels each buffer holds
  ctx_fc,              \* *cm->fc
  ctx_frame_contexts,  \* cm->frame_contexts[]
  ctx_out              \* the frames output so far

ctxVars == <<ctx_pc, ctx_cm, ctx_pbi, ctx_map, ctx_next_map, ctx_bufs, ctx_fc,
             ctx_frame_contexts, ctx_out>>

VARIABLES
  gm_pc,               \* "off", "idle", "refs", "done" or "error"
  gm_cm,               \* frame_type, the reference being read, error code
  gm_global_motion,    \* cm->global_motion[]
  gm_cur_frame         \* cm->cur_frame->global_motion[]

gmVars == <<gm_pc, gm_cm, gm_global_motion, gm_cur_frame>>

VARIABLES
  coef_pc,             \* "off", "read" or "recon"
  coef_dqcoeff,        \* xd->plane[plane].dqcoeff of the tile's thread data
  coef_unit,           \* path, skip, eob and max_scan_line of the unit
  coef_count           \* transform units decoded in the tile so far

coefVars == <<coef_pc, coef_dqcoeff, coef_unit, coef_count>>

VARIABLES
  lock_pc,             \* the position of the decoder in the frame
  lock_pool,           \* the state of pool->pool_mutex
  lock_cm,             \* fields of AV1_COMMON the lock sites read
  lock_error           \* cm->error.error_code after aom_internal_error

lockVars == <<lock_pc, lock_pool, lock_cm, lock_error>>

VARIABLES
  fid_pc,              \* "off", "idle", "parsed" or "error"
  fid_cm,              \* frame type, current_frame_id, error code of the header
  fid_ref_frame_id,    \* cm->ref_frame_id[]
  fid_valid,           \* cm->valid_for_referencing[]
  fid_count            \* headers parsed so far

fidVars == <<fid_pc, fid_cm, fid_ref_frame_id, fid_valid, fid_count>>

VARIABLES
  vtx_pc,              \* "off", "block", "walk" or "done"
  vtx_blk,             \* the block: its size and its visible extent
  vtx_stack,           \* pending read_tx_size_vartx calls, innermost first
  vtx_call,            \* the call that ran last and whether it read a symbol
  vtx_writes           \* per inter_tx_size index, the sizes written to it

vtxVars == <<vtx_pc, vtx_blk, vtx_stack, vtx_call, vtx_writes>>

moreVars == <<fidVars, vtxVars>>

secondVars == <<sbVars, ctxVars, gmVars, coefVars, lockVars>>

laterVars == <<secondVars, moreVars>>

vars == <<refVars, partVars, tileVars, quantVars, laterVars>>

notRef == <<partVars, tileVars, quantVars, laterVars>>
notPart == <<refVars, tileVars, quantVars, laterVars>>
notTile == <<refVars, partVars, quantVars, laterVars>>
notQuant == <<refVars, partVars, tileVars, laterVars>>
firstVars == <<refVars, partVars, tileVars, quantVars>>
notSb == <<firstVars, ctxVars, gmVars, coefVars, lockVars, moreVars>>
notCtx == <<firstVars, sbVars, gmVars, coefVars, lockVars, moreVars>>
notGm == <<firstVars, sbVars, ctxVars, coefVars, lockVars, moreVars>>
notCoef == <<firstVars, sbVars, ctxVars, gmVars, lockVars, moreVars>>
notLock == <<firstVars, sbVars, ctxVars, gmVars, coefVars, moreVars>>
notFid == <<firstVars, secondVars, vtxVars>>
notVtx == <<firstVars, secondVars, fidVars>>

\* the variables of the partition walk while another specification runs
PartOff ==
  /\ part_pc = "off"
  /\ part_cm = [mi_rows |-> 0, mi_cols |-> 0, ss_x |-> 0, ss_y |-> 0]
  /\ part_root = <<0, 0, <<0, 0>>>>
  /\ part_stack = <<>>
  /\ part_cover = <<>>
  /\ part_read = <<>>

\* the variables of tile decoding while another specification runs
TileOff ==
  /\ tile_pc = "off"
  /\ tile_cm = <<>>
  /\ tile_pbi = <<>>
  /\ tile_buffers = <<>>
  /\ tile_data = <<>>
  /\ tg = <<>>
  /\ fc = <<>>
  /\ frame_contexts = <<>>
  /\ decoded = {}
  /\ stages = <<>>
  /\ oversize = FALSE

\* the variables of the quantiser header while another specification runs
QuantOff ==
  /\ q_pc = "off"
  /\ q_cm = <<>>
  /\ q_xd = <<>>
  /\ q_hdr = <<>>
  /\ q_tx = {}
  /\ q_stages = <<>>

\* the variables of the superblock rows while another specification runs
SbOff ==
  /\ sb_pc = "off"
  /\ sb_cm = <<>>
  /\ sb_td = <<>>
  /\ sb_mb = 0
  /\ sb_tg = <<>>
  /\ sb_pos = <<>>
  /\ sb_error = "OK"

\* the variables of the frame contexts while another specification runs
CtxOff ==
  /\ ctx_pc = "off"
  /\ ctx_cm = <<>>
  /\ ctx_pbi = <<>>
  /\ ctx_map = <<>>
  /\ ctx_next_map = <<>>
  /\ ctx_bufs = <<>>
  /\ ctx_fc = <<>>
  /\ ctx_frame_contexts = <<>>
  /\ ctx_out = <<>>

\* the variables of global motion while another specification runs
GmOff ==
  /\ gm_pc = "off"
  /\ gm_cm = <<>>
  /\ gm_global_motion = <<>>
  /\ gm_cur_frame = <<>>

\* the variables of the coefficient buffer while another specification runs
CoefOff ==
  /\ coef_pc = "off"
  /\ coef_dqcoeff = <<>>
  /\ coef_unit = <<>>
  /\ coef_count = 0

\* the variables of the pool lock while another specification runs
LockOff ==
  /\ lock_pc = "off"
  /\ lock_pool = <<>>
  /\ lock_cm = <<>>
  /\ lock_error = "OK"

\* the variables of the sub-systems after the superblock rows and contexts
\* the variables of the frame ids while another specification runs
FidOff ==
  /\ fid_pc = "off"
  /\ fid_cm = <<>>
  /\ fid_ref_frame_id = <<>>
  /\ fid_valid = <<>>
  /\ fid_count = 0

\* the variables of the transform-size recursion while another
\* specification runs
VtxOff ==
  /\ vtx_pc = "off"
  /\ vtx_blk = <<>>
  /\ vtx_stack = <<>>
  /\ vtx_call = <<>>
  /\ vtx_writes = <<>>

MoreOff == FidOff /\ VtxOff

LastOff ==
  /\ GmOff
  /\ CoefOff
  /\ LockOff
  /\ MoreOff

SecondOff ==
  /\ SbOff
  /\ CtxOff
  /\ GmOff
  /\ CoefOff
  /\ LockOff

\* the variables of the later sub-systems while an earlier one runs
LaterOff ==
  /\ SbOff
  /\ CtxOff
  /\ LastOff

\* ------------------------------------------------------------------
\* Buffer pool helpers
\* ------------------------------------------------------------------
FreeBufs(fb) == {b \in Bufs : fb[b].ref_count = 0}

Min(S) == CHOOSE x \in S : \A y \in S : x <= y

\* index of the first buffer with ref_count 0, INVALID_IDX when there is none
get_free_fb(fb) == IF FreeBufs(fb) = {} THEN INVALID_IDX ELSE Min(FreeBufs(fb))

\* the pool after get_free_fb handed out buffer b
TakeFree(fb, b) == [fb EXCEPT ![b].ref_count = 1]

IncRef(fb, b) == [fb EXCEPT ![b].ref_count = @ + 1]

DecRef(fb, b) ==
  IF b >= 0 /\ fb[b].ref_count > 0 THEN [fb EXCEPT ![b].ref_count = @ - 1]
  ELSE fb

\* ref_cnt_fb(bufs, &idx, new_idx): drop the hold on idx, take one on new_idx
ref_cnt_fb(fb, idx, new_idx) == IncRef(DecRef(fb, idx), new_idx)

AllInvalidRefs == [i \in 0 .. (INTER_REFS_PER_FRAME - 1) |-> INVALID_IDX]
AllEmptyMap == [i \in Slots |-> INVALID_IDX]

\* ------------------------------------------------------------------
\* Reference management in read_uncompressed_header
\* ------------------------------------------------------------------
Raise(code) == [ok |-> FALSE, code |-> code]
NoError == [ok |-> TRUE, code |-> "OK"]

\* error-resilient frames: every empty slot gets a newly allocated
\* placeholder buffer, in slot order.  st = [map, fb, neg].
RECURSIVE AllocPlaceholders(_, _)
AllocPlaceholders(st, ref_idx) ==
  IF ref_idx = REF_FRAMES THEN st
  ELSE IF st.map[ref_idx] # INVALID_IDX THEN AllocPlaceholders(st, ref_idx + 1)
  ELSE LET buf_idx == get_free_fb(st.fb) IN
       IF buf_idx = INVALID_IDX
       THEN AllocPlaceholders([st EXCEPT !.neg = TRUE], ref_idx + 1)
       ELSE AllocPlaceholders(
              [st EXCEPT !.map[ref_idx] = buf_idx,
                         !.fb = TakeFree(st.fb, buf_idx)], ref_idx + 1)

\* the first reference i whose selected slot is empty, INTER_REFS_PER_FRAME
\* when every selected slot is populated
FirstEmptyRef(map, sel) ==
  LET bad == {i \in 0 .. (INTER_REFS_PER_FRAME - 1) : map[sel[i]] = INVALID_IDX}
  IN IF bad = {} THEN INTER_REFS_PER_FRAME ELSE Min(bad)

ResyncMap_Keep(map, need_resync) == map

\* need_resync: a key or intra-only frame forgets every reference slot
ResyncMap(map, need_resync) == IF need_resync = 1 THEN AllEmptyMap ELSE map

\* a header that forgets to clear is_reference_frame
InterIsReference_Always(flags) == 1

\* is_reference_frame as the inter-frame branch leaves it
InterIsReference(flags) == IF flags = 0 THEN 0 ELSE 1

\* The refresh commit ("Generate next_ref_frame_map"), run with the pool
\* locked.  st = [nmap, fb].  A slot named in the mask points at the new
\* buffer, whose count goes up; any other slot is carried forward.
\* a commit that points the slot at the new buffer without counting it
CommitNewRef_NoCount(st, bit, new_fb_idx, i) ==
  IF bit = 1 THEN [st EXCEPT !.nmap[i] = new_fb_idx] ELSE st

CommitNewRef(st, bit, new_fb_idx, i) ==
  IF bit = 1
  THEN [nmap |-> [st.nmap EXCEPT ![i] = new_fb_idx],
        fb |-> IncRef(st.fb, new_fb_idx)]
  ELSE st

CommitCarry(st, bit, map, i) ==
  IF bit = 1 THEN st ELSE [st EXCEPT !.nmap[i] = map[i]]

\* "Current thread holds the reference frame."
CommitHold(st, map, i) ==
  IF map[i] >= 0 THEN [st EXCEPT !.fb = IncRef(st.fb, map[i])] ELSE st

\* for (mask = refresh_frame_flags; mask; mask >>= 1): returns the state and
\* the ref_index the loop stopped at
RECURSIVE CommitMaskLoop(_, _, _, _, _)
CommitMaskLoop(st, map, new_fb_idx, m, i) ==
  IF m = 0 THEN [st |-> st, ref_index |-> i]
  ELSE CommitMaskLoop(
         CommitHold(CommitCarry(CommitNewRef(st, m % 2, new_fb_idx, i),
                                m % 2, map, i), map, i),
         map, new_fb_idx, m \div 2, i + 1)

\* for (; ref_index < REF_FRAMES; ++ref_index)
RECURSIVE CommitRestLoop(_, _, _)
CommitRestLoop(st, map, i) ==
  IF i >= REF_FRAMES THEN st
  ELSE CommitRestLoop(CommitHold([st EXCEPT !.nmap[i] = map[i]], map, i),
                      map, i + 1)

\* a commit that stops after the slots of the mask
GenerateNextRefFrameMap_MaskOnly(nmap, fb, map, flags, new_fb_idx) == CommitMaskLoop([nmap |-> nmap, fb |-> fb], map, new_fb_idx, flags, 0).st

GenerateNextRefFrameMap(nmap, fb, map, flags, new_fb_idx) ==
  LET first == CommitMaskLoop([nmap |-> nmap, fb |-> fb], map, new_fb_idx,
                              flags, 0)
  IN CommitRestLoop(first.st, map, first.ref_index)

\* av1_set_frame_refs: short signaling names LAST and GOLDEN and derives the
\* other references from populated slots
av1_set_frame_refs(map, lst_ref, gld_ref) ==
  [i \in 0 .. (INTER_REFS_PER_FRAME - 1) |->
     IF i < 3 THEN map[lst_ref] ELSE map[gld_ref]]

\* Key frame: lines 2663-2684.  r = [err, map, fb, refs, flags, isref, resync,
\* neg, typed]; typed says whether cur_frame->frame_type was reached.
KeyFrameRefs(map, fb, pb, show, mbits, fs) ==
  LET flags == IF show = 1 THEN ALL_REFRESH ELSE mbits
      base == [err |-> NoError, map |-> map, fb |-> fb, refs |-> AllInvalidRefs,
               flags |-> flags, isref |-> 1, resync |-> pb.need_resync,
               neg |-> FALSE, typed |-> TRUE]
  IN IF fs # "OK" THEN [base EXCEPT !.err = Raise(fs), !.typed = FALSE]
     ELSE [base EXCEPT !.map = ResyncMap(map, pb.need_resync), !.resync = 0]

\* Intra-only frame: lines 2718-2728
IntraOnlyRefs(st, refs, pb, mbits, fs) ==
  LET base == [err |-> NoError, map |-> st.map, fb |-> st.fb, refs |-> refs,
               flags |-> mbits, isref |-> 1, resync |-> pb.need_resync,
               neg |-> st.neg, typed |-> TRUE]
  IN IF fs # "OK" THEN [base EXCEPT !.err = Raise(fs), !.typed = FALSE]
     ELSE [base EXCEPT !.map = ResyncMap(st.map, pb.need_resync), !.resync = 0]

\* Inter frame: lines 2729-2832 and the need_resync check of line 2879
InterRefs(st, refs, pb, sframe, mbits, short, lst, gld, sel, fs, primary) ==
  LET base == [err |-> NoError, map |-> st.map, fb |-> st.fb, refs |-> refs,
               flags |-> pb.refresh_frame_flags, isref |-> 1,
               resync |-> pb.need_resync, neg |-> st.neg, typed |-> TRUE]
  IN IF pb.need_resync = 1
     THEN IF primary # PRIMARY_REF_NONE /\ refs[primary] < 0
          THEN [base EXCEPT !.err = Raise("CORRUPT_FRAME"), !.typed = FALSE]
          ELSE [base EXCEPT !.err = Raise("CORRUPT_FRAME")]
     ELSE
       LET flags == IF sframe THEN ALL_REFRESH ELSE mbits
           b1 == [base EXCEPT !.flags = flags, !.isref = InterIsReference(flags),
                              !.typed = FALSE]
       IN IF short = 1
          THEN IF st.map[lst] = INVALID_IDX \/ st.map[gld] = INVALID_IDX
               THEN [b1 EXCEPT !.err = Raise("CORRUPT_FRAME")]
               ELSE IF fs # "OK"
                    THEN [b1 EXCEPT !.err = Raise(fs),
                                    !.refs = av1_set_frame_refs(st.map, lst, gld)]
                    ELSE [b1 EXCEPT !.refs = av1_set_frame_refs(st.map, lst, gld),
                                    !.typed = TRUE]
          ELSE LET k == FirstEmptyRef(st.map, sel)
                   refs1 == [i \in 0 .. (INTER_REFS_PER_FRAME - 1) |->
                               IF i < k THEN st.map[sel[i]] ELSE refs[i]]
               IN IF k < INTER_REFS_PER_FRAME
                  THEN [b1 EXCEPT !.err = Raise("CORRUPT_FRAME"), !.refs = refs1]
                  ELSE IF fs # "OK"
                       THEN [b1 EXCEPT !.err = Raise(fs), !.refs = refs1]
                       ELSE [b1 EXCEPT !.refs = refs1, !.typed = TRUE]

\* read_uncompressed_header from the frame type to the point before the
\* refresh commit (lines 2579-2893)
HeaderRefs(ft, show, erm, prim, mbits, short, lst, gld, sel, fs) ==
  LET sframe == ft = "S_FRAME"
      error_res == IF sframe THEN 1 ELSE erm
      intra == ft \in {"KEY_FRAME", "INTRA_ONLY_FRAME"}
      primary == IF error_res = 0 /\ ~intra THEN prim ELSE PRIMARY_REF_NONE
      st0 == [map |-> ref_frame_map, fb |-> frame_bufs, neg |-> FALSE]
      st1 == IF error_res = 1 /\ cm.enable_order_hint = 1
             THEN AllocPlaceholders(st0, 0) ELSE st0
  IN IF ft = "KEY_FRAME"
     THEN KeyFrameRefs(ref_frame_map, frame_bufs, pbi, show, mbits, fs)
     ELSE IF ft = "INTRA_ONLY_FRAME"
          THEN IntraOnlyRefs(st1, frame_refs, pbi, mbits, fs)
          ELSE InterRefs(st1, frame_refs, pbi, sframe, mbits,
                         short,
                         lst, gld, sel, fs, primary)

\* ------------------------------------------------------------------
\* The frame life cycle around the header (reference specification)
\* ------------------------------------------------------------------
InitBuf == [ref_count |-> 0, frame_type |-> "KEY_FRAME", showable_frame |-> 0,
            film_grain_params_present |-> 0]

\* AV1_COMMON at the start of a frame: the sequence parameters, the buffer
\* the frame decodes into, and the per-frame fields, which every header
\* assigns before it reads them
FreshCommon(oh, fg, b) ==
  [show_existing_frame |-> 0, reset_decoder_state |-> 0,
   frame_type |-> "KEY_FRAME", show_frame |-> 0, showable_frame |-> 0,
   intra_only |-> 0, error_resilient_mode |-> 0, is_reference_frame |-> 0,
   primary_ref_frame |-> 0, new_fb_idx |-> b, cur_frame |-> b,
   enable_order_hint |-> oh, film_grain_params_present |-> fg]

\* the variables of the reference specification while another one runs
RefOff ==
  /\ pc = "off"
  /\ cm = FreshCommon(0, 0, INVALID_IDX)
  /\ pbi = [refresh_frame_flags |-> 0, hold_ref_buf |-> 0, need_resync |-> 1]
  /\ ref_frame_map = AllEmptyMap
  /\ next_ref_frame_map = AllEmptyMap
  /\ frame_refs = AllInvalidRefs
  /\ frame_bufs = [b \in Bufs |-> InitBuf]
  /\ error_code = "OK"
  /\ neg_index = FALSE
  /\ nframes = 0

RefInit ==
  /\ PartOff
  /\ TileOff
  /\ QuantOff
  /\ LaterOff
  /\ pc = "idle"
  /\ \E oh \in {0, 1} : cm = FreshCommon(oh, 1, INVALID_IDX)
  /\ pbi = [refresh_frame_flags |-> 0, hold_ref_buf |-> 0, need_resync |-> 1]
  /\ ref_frame_map = AllEmptyMap
  /\ next_ref_frame_map = AllEmptyMap
  /\ frame_refs = AllInvalidRefs
  /\ frame_bufs = [b \in Bufs |-> InitBuf]
  /\ error_code = "OK"
  /\ neg_index = FALSE
  /\ nframes = 0

\* the decoder takes a free buffer for the frame it is about to decode
ReceiveFrame ==
  /\ pc = "idle"
  /\ UNCHANGED notRef
  /\ nframes < MaxFrames
  /\ get_free_fb(frame_bufs) # INVALID_IDX
  /\ LET b == get_free_fb(frame_bufs) IN
       /\ frame_bufs' = TakeFree(frame_bufs, b)
       /\ cm' = [cm EXCEPT !.new_fb_idx = b, !.cur_frame = b]
  /\ pc' = "header"
  /\ nframes' = nframes + 1
  /\ UNCHANGED <<pbi, ref_frame_map, next_ref_frame_map, frame_refs,
                 error_code, neg_index>>

\* show_existing_frame = 1 (lines 2535-2577 with show_existing_frame_reset)
ShowExistingFrame(existing_frame_idx) ==
  /\ pc = "header"
  /\ UNCHANGED notRef
  /\ LET frame_to_show == ref_frame_map[existing_frame_idx]
         cm1 == [cm EXCEPT !.is_reference_frame = 1, !.show_existing_frame = 1,
                           !.reset_decoder_state = 0]
     IN IF frame_to_show < 0 \/ frame_bufs[frame_to_show].ref_count < 1
        THEN /\ pc' = "error"
             /\ error_code' = "UNSUP_BITSTREAM"
             /\ cm' = cm1
             /\ UNCHANGED <<pbi, ref_frame_map, next_ref_frame_map, frame_refs,
                            frame_bufs>>
        ELSE LET fb1 == ref_cnt_fb(frame_bufs, cm.new_fb_idx, frame_to_show)
                 reset == IF frame_bufs[frame_to_show].frame_type = "KEY_FRAME"
                          THEN 1 ELSE 0
                 fb2 == [fb1 EXCEPT ![frame_to_show].showable_frame = 0]
                 cm2 == [cm1 EXCEPT !.new_fb_idx = frame_to_show,
                                    !.reset_decoder_state = reset,
                                    !.show_frame = 1]
             IN IF reset = 1
                THEN LET map1 == ResyncMap(ref_frame_map, pbi.need_resync)
                         done == GenerateNextRefFrameMap(next_ref_frame_map, fb2,
                                   map1, ALL_REFRESH, frame_to_show)
                     IN /\ cm' = [cm2 EXCEPT !.frame_type = "KEY_FRAME"]
                        /\ pbi' = [refresh_frame_flags |-> ALL_REFRESH,
                                   hold_ref_buf |-> 1, need_resync |-> 0]
                        /\ frame_refs' = AllInvalidRefs
                        /\ ref_frame_map' = map1
                        /\ next_ref_frame_map' = done.nmap
                        /\ frame_bufs' = done.fb
                        /\ pc' = "hdr_done"
                        /\ error_code' = "OK"
                ELSE /\ cm' = cm2
                     /\ pbi' = [pbi EXCEPT !.refresh_frame_flags = 0]
                     /\ frame_bufs' = fb2
                     /\ pc' = "hdr_done"
                     /\ error_code' = "OK"
                     /\ UNCHANGED <<ref_frame_map, next_ref_frame_map, frame_refs>>
  /\ UNCHANGED <<neg_index, nframes>>

\* a full header up to the refresh commit; frame_refs_short_signaling is a
\* bit of the header only when order hints are enabled
HeaderParse(ft, show, showable, erm, prim, mbits, short, lst, gld, sel, fs) ==
  /\ pc = "header"
  /\ UNCHANGED notRef
  /\ short = 1 => cm.enable_order_hint = 1
  /\ LET r == HeaderRefs(ft, show, erm, prim, mbits, short, lst, gld, sel, fs)
         sframe == ft = "S_FRAME"
         error_res == IF sframe THEN 1 ELSE erm
         intra == ft \in {"KEY_FRAME", "INTRA_ONLY_FRAME"}
         fb1 == [r.fb EXCEPT ![cm.cur_frame].showable_frame = showable]
         fb2 == IF ft = "INTRA_ONLY_FRAME"
                THEN [fb1 EXCEPT ![cm.cur_frame].film_grain_params_present =
                                   cm.film_grain_params_present]
                ELSE fb1
     IN /\ cm' = [cm EXCEPT !.show_existing_frame = 0,
                            !.reset_decoder_state = 0,
                            !.frame_type = ft, !.show_frame = show,
                            !.showable_frame = showable,
                            !.intra_only = IF ft = "INTRA_ONLY_FRAME" THEN 1 ELSE 0,
                            !.error_resilient_mode = error_res,
                            !.primary_ref_frame =
                               IF error_res = 0 /\ ~intra THEN prim
                               ELSE PRIMARY_REF_NONE,
                            !.is_reference_frame = r.isref]
        /\ pbi' = [pbi EXCEPT !.refresh_frame_flags = r.flags,
                              !.need_resync = r.resync]
        /\ ref_frame_map' = r.map
        /\ frame_refs' = r.refs
        /\ frame_bufs' = IF r.typed
                         THEN [fb2 EXCEPT ![cm.cur_frame].frame_type = ft]
                         ELSE fb2
        /\ neg_index' = (neg_index \/ r.neg)
        /\ pc' = IF r.err.ok THEN "commit" ELSE "error"
        /\ error_code' = r.err.code
  /\ UNCHANGED <<next_ref_frame_map, nframes>>

\* lines 2895-2919: the refresh commit under the pool lock
RefreshCommit ==
  /\ pc = "commit"
  /\ UNCHANGED notRef
  /\ LET done == GenerateNextRefFrameMap(next_ref_frame_map, frame_bufs,
                   ref_frame_map, pbi.refresh_frame_flags, cm.new_fb_idx)
     IN /\ next_ref_frame_map' = done.nmap
        /\ frame_bufs' = done.fb
  /\ pbi' = [pbi EXCEPT !.hold_ref_buf = 1]
  /\ pc' = "post"
  /\ UNCHANGED <<cm, ref_frame_map, frame_refs, error_code, neg_index, nframes>>

\* av1_read_film_grain_params, inheritance by reference index (lines
\* 2045-2058): the slot is read without a check for -1.  present is the value
\* the read of frame_bufs[-1].film_grain_params_present yields.
\* Result: [err, neg].
FilmGrainInherit(map, fb, idx, garbage) ==
  LET buf_idx == map[idx]
      present == IF buf_idx < 0 THEN garbage
                 ELSE fb[buf_idx].film_grain_params_present
  IN [err |-> IF present = 0 THEN Raise("UNSUP_BITSTREAM") ELSE NoError,
      neg |-> buf_idx < 0]

\* whether this header reads film-grain parameters by reference
InheritsFilmGrain(apply_grain, update_parameters) ==
  /\ (cm.show_frame = 1 \/ cm.showable_frame = 1)
  /\ cm.film_grain_params_present = 1
  /\ apply_grain = 1
  /\ cm.frame_type = "INTER_FRAME"
  /\ update_parameters = 0

\* the header after the refresh commit (lines 2921-3038)
HeaderFinish(apply_grain, update_parameters, idx, garbage) ==
  /\ pc = "post"
  /\ UNCHANGED notRef
  /\ LET fb1 == [frame_bufs EXCEPT ![cm.cur_frame].film_grain_params_present =
                                     cm.film_grain_params_present]
         fg == IF InheritsFilmGrain(apply_grain, update_parameters)
               THEN FilmGrainInherit(ref_frame_map, fb1, idx, garbage)
               ELSE [err |-> NoError, neg |-> FALSE]
     IN /\ frame_bufs' = fb1
        /\ neg_index' = (neg_index \/ fg.neg)
        /\ pc' = IF fg.err.ok THEN "hdr_done" ELSE "error"
        /\ error_code' = fg.err.code
  /\ UNCHANGED <<cm, pbi, ref_frame_map, next_ref_frame_map, frame_refs, nframes>>

\* between frames the per-frame fields hold no value the next frame reads:
\* every header assigns them before it uses them
FrameDone ==
  /\ cm' = FreshCommon(cm.enable_order_hint, cm.film_grain_params_present,
                       INVALID_IDX)
  /\ pbi' = [pbi EXCEPT !.hold_ref_buf = 0, !.refresh_frame_flags = 0]
  /\ frame_refs' = AllInvalidRefs
  /\ error_code' = "OK"
  /\ neg_index' = FALSE
  /\ pc' = "idle"

\* release(buffer) for every hold the frame took, and publication of the next
\* table: st = [map, fb]
RECURSIVE ReleaseSlots(_, _, _, _, _)
ReleaseSlots(st, nmap, flags, publish, i) ==
  IF i = REF_FRAMES THEN st
  ELSE LET old_idx == st.map[i]
           fb1 == DecRef(st.fb, old_idx)
           fb2 == IF Bit(flags, i) = 1
                  THEN (IF publish THEN DecRef(fb1, old_idx)
                        ELSE DecRef(fb1, nmap[i]))
                  ELSE fb1
       IN ReleaseSlots([map |-> IF publish THEN [st.map EXCEPT ![i] = nmap[i]]
                                ELSE st.map,
                        fb |-> fb2], nmap, flags, publish, i + 1)

\* the frame is complete: the next table becomes the reference table and the
\* decoding thread drops its holds
FrameEnd ==
  /\ pc = "hdr_done"
  /\ UNCHANGED notRef
  /\ LET st == IF pbi.hold_ref_buf = 1
               THEN ReleaseSlots([map |-> ref_frame_map, fb |-> frame_bufs],
                                 next_ref_frame_map, pbi.refresh_frame_flags,
                                 TRUE, 0)
               ELSE [map |-> ref_frame_map, fb |-> frame_bufs]
     IN /\ ref_frame_map' = st.map
        /\ frame_bufs' = DecRef(st.fb, cm.new_fb_idx)
  /\ FrameDone
  /\ UNCHANGED <<next_ref_frame_map, nframes>>

\* the frame failed: the decoding thread drops its holds and the references
\* the commit gave the new buffer
ErrorCleanup ==
  /\ pc = "error"
  /\ UNCHANGED notRef
  /\ LET st == IF pbi.hold_ref_buf = 1
               THEN ReleaseSlots([map |-> ref_frame_map, fb |-> frame_bufs],
                                 next_ref_frame_map, pbi.refresh_frame_flags,
                                 FALSE, 0)
               ELSE [map |-> ref_frame_map, fb |-> frame_bufs]
     IN frame_bufs' = DecRef(st.fb, cm.new_fb_idx)
  /\ FrameDone
  /\ UNCHANGED <<ref_frame_map, next_ref_frame_map, nframes>>

FrameSizeResults == {"OK", "CORRUPT_FRAME"}

SameRefs(base) == [i \in 0 .. (INTER_REFS_PER_FRAME - 1) |-> base]

\* The header inputs of the model.  A field the header does not read for the
\* frame type has one value only.
HeaderInputs ==
  {h \in [ft : FrameTypes, show : {0, 1}, showable : {0, 1}, erm : {0, 1},
          prim : {0, PRIMARY_REF_NONE}, mbits : MaskInputs, short : {0, 1},
          lst : RefBases, gld : RefBases, base : RefBases,
          fs : FrameSizeResults] :
     /\ h.show = 1 => h.showable = 0
     /\ h.ft = "KEY_FRAME" => h.erm = 0
     /\ h.fs # "OK" => (h.show = 1 /\ h.mbits = 0 /\ h.prim = PRIMARY_REF_NONE)
     /\ h.ft = "S_FRAME" => h.erm = 1
     /\ (h.erm = 1 \/ h.ft \in {"KEY_FRAME", "INTRA_ONLY_FRAME"})
          => h.prim = PRIMARY_REF_NONE
     /\ ((h.ft = "KEY_FRAME" /\ h.show = 1) \/ h.ft = "S_FRAME") => h.mbits = 0
     /\ h.ft \in {"KEY_FRAME", "INTRA_ONLY_FRAME"} => h.short = 0
     /\ h.short = 1 => (h.base = 0 /\ h.lst <= h.gld)
     /\ h.short = 0 => (h.lst = 0 /\ h.gld = 0)
     /\ h.ft \in {"KEY_FRAME", "INTRA_ONLY_FRAME"} => h.base = 0}

\* the film-grain inputs of the model, with one value for a field the
\* header does not read
GrainInputs ==
  {g \in [apply_grain : {0, 1}, update_parameters : {0, 1}, idx : RefBases,
          garbage : {0, 1}] :
     /\ (g.apply_grain = 0 \/ g.update_parameters = 1)
          => (g.idx = 0 /\ g.garbage = 0)
     /\ g.apply_grain = 0 => g.update_parameters = 0}

RefNext ==
  \/ ReceiveFrame
  \/ \E existing_frame_idx \in Slots : ShowExistingFrame(existing_frame_idx)
  \/ \E h \in HeaderInputs :
       HeaderParse(h.ft, h.show, h.showable, h.erm, h.prim, h.mbits, h.short,
                   h.lst, h.gld, SameRefs(h.base), h.fs)
  \/ RefreshCommit
  \/ \E g \in GrainInputs :
       HeaderFinish(g.apply_grain, g.update_parameters, g.idx, g.garbage)
  \/ FrameEnd
  \/ ErrorCleanup

Spec == RefInit /\ [][RefNext]_vars

\* ------------------------------------------------------------------
\* Properties of the reference bookkeeping
\* ------------------------------------------------------------------
SlotsOf(map, b) == Cardinality({i \in Slots : map[i] = b})

SetBitsOf(flags, nmap, b) ==
  Cardinality({i \in Slots : Bit(flags, i) = 1 /\ nmap[i] = b})

CountsRiseBy(delta(_)) ==
  \A b \in Bufs : frame_bufs'[b].ref_count = frame_bufs[b].ref_count + delta(b)

Accounted(b) ==
  SlotsOf(ref_frame_map, b)
  + (IF pc # "idle" /\ cm.new_fb_idx = b THEN 1 ELSE 0)
  + (IF pbi.hold_ref_buf = 1
     THEN SlotsOf(ref_frame_map, b)
          + SetBitsOf(pbi.refresh_frame_flags, next_ref_frame_map, b)
     ELSE 0)

C3_NoNegativeIndex == neg_index = FALSE

\* C4 as stated: the commit points the slots of the mask at the new buffer
\* and carries the others forward; counts rise by one on the new buffer per
\* set bit and by one on the carried buffer per unset populated slot, and
\* change nowhere else.
C4_Original ==
  [][pc = "commit" =>
       /\ \A i \in Slots :
            next_ref_frame_map'[i] =
              IF Bit(pbi.refresh_frame_flags, i) = 1 THEN cm.new_fb_idx
              ELSE ref_frame_map[i]
       /\ LET rise(b) ==
                 (IF b = cm.new_fb_idx THEN PopCount(pbi.refresh_frame_flags)
                  ELSE 0)
                 + Cardinality({i \in Slots :
                                  /\ Bit(pbi.refresh_frame_flags, i) = 0
                                  /\ ref_frame_map[i] = b})
          IN CountsRiseBy(rise)
    ]_vars

\* C4 amended: the next table is as stated; counts rise by one on the new
\* buffer per set bit and by one, per populated slot whether its bit is set
\* or not, on the buffer the slot holds; no other count changes.  The commit
\* of the show-existing reset does the same for the full mask after the
\* output hold has moved to the shown buffer.
C4_Amended ==
  [][/\ pc = "commit" =>
          /\ \A i \in Slots :
               next_ref_frame_map'[i] =
                 IF Bit(pbi.refresh_frame_flags, i) = 1 THEN cm.new_fb_idx
                 ELSE ref_frame_map[i]
          /\ LET rise(b) ==
                    (IF b = cm.new_fb_idx THEN PopCount(pbi.refresh_frame_flags)
                     ELSE 0)
                    + SlotsOf(ref_frame_map, b)
             IN CountsRiseBy(rise)
     /\ (pc = "header" /\ pc' = "hdr_done" /\ cm'.reset_decoder_state = 1) =>
          /\ \A i \in Slots : next_ref_frame_map'[i] = cm'.new_fb_idx
          /\ LET rise(b) ==
                    (IF b = cm'.new_fb_idx THEN REF_FRAMES + 1 ELSE 0)
                    - (IF b = cm.new_fb_idx THEN 1 ELSE 0)
                    + SlotsOf(ref_frame_map', b)
             IN CountsRiseBy(rise)
    ]_vars

\* a commit has pointed a populated slot at the new buffer
C4_Witness ==
  /\ pc = "post"
  /\ \E i \in Slots :
       /\ Bit(pbi.refresh_frame_flags, i) = 1
       /\ ref_frame_map[i] # INVALID_IDX
       /\ ref_frame_map[i] # cm.new_fb_idx
       /\ next_ref_frame_map[i] = cm.new_fb_idx
  /\ \E i \in Slots :
       /\ Bit(pbi.refresh_frame_flags, i) = 0
       /\ ref_frame_map[i] # INVALID_IDX

\* a step of the decode of a frame whose header left refresh_frame_flags = 0:
\* the header itself, the refresh commit, the rest of the header or the end
\* of the frame
DroppableStep ==
  \/ pc = "header" /\ pc' = "commit" /\ pbi'.refresh_frame_flags = 0
  \/ /\ pc \in {"commit", "post", "hdr_done"}
     /\ cm.show_existing_frame = 0
     /\ pbi.refresh_frame_flags = 0

\* C19 as stated: the decode of a frame with refresh_frame_flags = 0 leaves
\* every entry of ref_frame_map as it was.
C19_Original ==
  [][DroppableStep => ref_frame_map' = ref_frame_map]_vars

\* the header filled the empty slot i with a placeholder buffer it took
\* from the pool
PlaceholderFilled(i) ==
  /\ pc = "header"
  /\ ref_frame_map[i] = INVALID_IDX
  /\ cm'.frame_type # "KEY_FRAME"
  /\ cm'.error_resilient_mode = 1
  /\ cm.enable_order_hint = 1
  /\ ref_frame_map'[i] \in Bufs
  /\ frame_bufs[ref_frame_map'[i]].ref_count = 0
  /\ frame_bufs'[ref_frame_map'[i]].ref_count >= 1

\* the header of a key or intra-only frame emptied slot i for a resync
\* that was pending
ResyncEmptied(i) ==
  /\ pc = "header"
  /\ pbi.need_resync = 1
  /\ cm'.frame_type \in {"KEY_FRAME", "INTRA_ONLY_FRAME"}
  /\ ref_frame_map'[i] = INVALID_IDX

\* C19 amended: the decode of a frame with refresh_frame_flags = 0 leaves
\* every entry of ref_frame_map as it was, except that the header of an
\* error-resilient frame other than a key frame, under order hints, fills
\* empty slots with placeholder buffers, and the header of a key or
\* intra-only frame empties every slot when a resync is pending.
C19_Amended ==
  [][DroppableStep =>
       \A i \in Slots :
         \/ ref_frame_map'[i] = ref_frame_map[i]
         \/ PlaceholderFilled(i)
         \/ ResyncEmptied(i)]_vars

\* a frame with refresh_frame_flags = 0 is about to end, after a frame
\* that populated the table
C19_Witness ==
  /\ pc = "hdr_done"
  /\ cm.show_existing_frame = 0
  /\ pbi.refresh_frame_flags = 0
  /\ pbi.hold_ref_buf = 1
  /\ nframes = 2
  /\ \E i \in Slots : ref_frame_map[i] # INVALID_IDX
  /\ next_ref_frame_map = ref_frame_map

\* a full header is parsed while a resync is pending
ResyncHeaderStep ==
  /\ pc = "header"
  /\ pbi.need_resync = 1
  /\ pc' \in {"commit", "error"}
  /\ cm'.show_existing_frame = 0

MaxSbLog2 == 3

MaxMi == 2 ^ MaxSbLog2

\* A block size is <<wide, high>> in mode-info units of 4 pixels.
BLOCK_INVALID == <<0, 0>>
BLOCK_8X8 == <<2, 2>>
BLOCK_128X128 == <<32, 32>>

mi_size_wide(bsize) == bsize[1]
mi_size_high(bsize) == bsize[2]

PartitionTypes ==
  <<"PARTITION_NONE", "PARTITION_HORZ", "PARTITION_VERT", "PARTITION_SPLIT",
    "PARTITION_HORZ_A", "PARTITION_HORZ_B", "PARTITION_VERT_A",
    "PARTITION_VERT_B", "PARTITION_HORZ_4", "PARTITION_VERT_4">>

\* number of symbols of the partition alphabet of a square block
partition_cdf_length(bsize) ==
  IF bsize = BLOCK_8X8 THEN 4
  ELSE IF bsize = BLOCK_128X128 THEN 8 ELSE 10

\* subsize_lookup[partition][bsize] for a square bsize
subsize_lookup(partition, bsize) ==
  LET w == mi_size_wide(bsize)
      h == mi_size_high(bsize)
  IN CASE partition = "PARTITION_NONE" -> bsize
       [] partition \in {"PARTITION_HORZ", "PARTITION_HORZ_A", "PARTITION_HORZ_B"}
            -> IF h >= 2 THEN <<w, h \div 2>> ELSE BLOCK_INVALID
       [] partition \in {"PARTITION_VERT", "PARTITION_VERT_A", "PARTITION_VERT_B"}
            -> IF w >= 2 THEN <<w \div 2, h>> ELSE BLOCK_INVALID
       [] partition = "PARTITION_SPLIT"
            -> IF w >= 2 THEN <<w \div 2, h \div 2>> ELSE BLOCK_INVALID
       [] partition = "PARTITION_HORZ_4"
            -> IF h >= 4 /\ h <= 16 THEN <<w, h \div 4>> ELSE BLOCK_INVALID
       [] partition = "PARTITION_VERT_4"
            -> IF w >= 4 /\ w <= 16 THEN <<w \div 4, h>> ELSE BLOCK_INVALID

\* a chroma block for every luma block, whatever the subsampling
get_plane_block_size_Fallback(bsize, ss_x, ss_y) ==
  LET w == mi_size_wide(bsize)
      h == mi_size_high(bsize)
      half(n, ss) == IF ss = 1 /\ n > 1 THEN n \div 2 ELSE n
  IN IF bsize = BLOCK_INVALID THEN BLOCK_INVALID
     ELSE <<half(w, ss_x), half(h, ss_y)>>

\* ss_size_lookup[bsize][ss_x][ss_y]: the chroma block of a luma block; a
\* block is invalid when only its longer side is subsampled
get_plane_block_size(bsize, ss_x, ss_y) ==
  LET w == mi_size_wide(bsize)
      h == mi_size_high(bsize)
      half(n, ss) == IF ss = 1 /\ n > 1 THEN n \div 2 ELSE n
  IN IF bsize = BLOCK_INVALID THEN BLOCK_INVALID
     ELSE IF ss_x = 1 /\ ss_y = 0 /\ h > w THEN BLOCK_INVALID
     ELSE IF ss_x = 0 /\ ss_y = 1 /\ w > h THEN BLOCK_INVALID
     ELSE <<half(w, ss_x), half(h, ss_y)>>

\* the symbols read_partition can decode: none when neither half is inside
\* the frame, one binary symbol when one is, the full alphabet otherwise
PartitionSymbols(has_rows, has_cols, bsize) ==
  IF ~has_rows /\ ~has_cols THEN {0}
  ELSE IF has_rows /\ has_cols THEN 0 .. (partition_cdf_length(bsize) - 1)
  ELSE {0, 1}

\* every call decodes the symbol as one of the full alphabet
read_partition_FullAlphabet(has_rows, has_cols, bsize, symbol) ==
  PartitionTypes[symbol + 1]

read_partition(has_rows, has_cols, bsize, symbol) ==
  IF ~has_rows /\ ~has_cols THEN "PARTITION_SPLIT"
  ELSE IF has_rows /\ has_cols THEN PartitionTypes[symbol + 1]
  ELSE IF ~has_rows /\ has_cols
       THEN (IF symbol # 0 THEN "PARTITION_SPLIT" ELSE "PARTITION_HORZ")
       ELSE (IF symbol # 0 THEN "PARTITION_SPLIT" ELSE "PARTITION_VERT")

\* the alphabet sizes of the symbols one read_partition call reads: no
\* symbol, one aom_read_symbol over the partition CDF, or one aom_read_cdf
\* over a gathered binary CDF
read_partition_reads(has_rows, has_cols, bsize) ==
  IF ~has_rows /\ ~has_cols THEN <<>>
  ELSE IF has_rows /\ has_cols THEN <<partition_cdf_length(bsize)>>
  ELSE <<2>>

\* a call that returned before it chose a partition
NoPartitionRead ==
  [has_rows |-> FALSE, has_cols |-> FALSE, bsize |-> BLOCK_INVALID,
   reads |-> <<>>, partition |-> "none", subsize |-> BLOCK_INVALID,
   error_code |-> "OK"]

Blk(r, c, b) == [mi_row |-> r, mi_col |-> c, bsize |-> b]

\* the three blocks of PARTITION_HORZ_A, both drawn at the left edge
HorzABlocks_SameColumn(mi_row, mi_col, hbs, subsize, bsize2) ==
  <<Blk(mi_row, mi_col, bsize2), Blk(mi_row, mi_col, bsize2),
    Blk(mi_row + hbs, mi_col, subsize)>>

HorzABlocks(mi_row, mi_col, hbs, subsize, bsize2) ==
  <<Blk(mi_row, mi_col, bsize2), Blk(mi_row, mi_col + hbs, bsize2),
    Blk(mi_row + hbs, mi_col, subsize)>>

\* the strips of PARTITION_HORZ_4 / PARTITION_VERT_4: a strip after the first
\* that starts outside the frame ends the loop
StripStarts(first, quarter_step, limit) ==
  SelectSeq([i \in 1 .. 4 |-> first + (i - 1) * quarter_step],
            LAMBDA x : x = first \/ x < limit)

\* the DEC_BLOCK calls of the switch over the partition type, in order
DecBlocks(partition, mi_row, mi_col, bsize, subsize, has_rows, has_cols, cmn) ==
  LET hbs == mi_size_wide(bsize) \div 2
      quarter_step == mi_size_wide(bsize) \div 4
      bsize2 == subsize_lookup("PARTITION_SPLIT", bsize)
  IN CASE partition = "PARTITION_NONE" -> <<Blk(mi_row, mi_col, subsize)>>
       [] partition = "PARTITION_HORZ" ->
            <<Blk(mi_row, mi_col, subsize)>>
            \o (IF has_rows THEN <<Blk(mi_row + hbs, mi_col, subsize)>> ELSE <<>>)
       [] partition = "PARTITION_VERT" ->
            <<Blk(mi_row, mi_col, subsize)>>
            \o (IF has_cols THEN <<Blk(mi_row, mi_col + hbs, subsize)>> ELSE <<>>)
       [] partition = "PARTITION_SPLIT" -> <<>>
       [] partition = "PARTITION_HORZ_A" ->
            HorzABlocks(mi_row, mi_col, hbs, subsize, bsize2)
       [] partition = "PARTITION_HORZ_B" ->
            <<Blk(mi_row, mi_col, subsize), Blk(mi_row + hbs, mi_col, bsize2),
              Blk(mi_row + hbs, mi_col + hbs, bsize2)>>
       [] partition = "PARTITION_VERT_A" ->
            <<Blk(mi_row, mi_col, bsize2), Blk(mi_row + hbs, mi_col, bsize2),
              Blk(mi_row, mi_col + hbs, subsize)>>
       [] partition = "PARTITION_VERT_B" ->
            <<Blk(mi_row, mi_col, subsize), Blk(mi_row, mi_col + hbs, bsize2),
              Blk(mi_row + hbs, mi_col + hbs, bsize2)>>
       [] partition = "PARTITION_HORZ_4" ->
            LET rows == StripStarts(mi_row, quarter_step, cmn.mi_rows)
            IN [i \in 1 .. Len(rows) |-> Blk(rows[i], mi_col, subsize)]
       [] partition = "PARTITION_VERT_4" ->
            LET cols == StripStarts(mi_col, quarter_step, cmn.mi_cols)
            IN [i \in 1 .. Len(cols) |-> Blk(mi_row, cols[i], subsize)]

\* the DEC_PARTITION calls of PARTITION_SPLIT, in order
DecPartitions(partition, mi_row, mi_col, bsize, subsize) ==
  LET hbs == mi_size_wide(bsize) \div 2
  IN IF partition = "PARTITION_SPLIT"
     THEN <<Blk(mi_row, mi_col, subsize), Blk(mi_row, mi_col + hbs, subsize),
            Blk(mi_row + hbs, mi_col, subsize),
            Blk(mi_row + hbs, mi_col + hbs, subsize)>>
     ELSE <<>>

Cells == (0 .. (MaxMi - 1)) \X (0 .. (MaxMi - 1))

CellsOf(b) ==
  {x \in Cells : /\ x[1] >= b.mi_row
                 /\ x[1] < b.mi_row + mi_size_high(b.bsize)
                 /\ x[2] >= b.mi_col
                 /\ x[2] < b.mi_col + mi_size_wide(b.bsize)}

\* decode_block for each block of the sequence: every mode-info unit of the
\* block counts one more decode
RECURSIVE DecodeBlocks(_, _)
DecodeBlocks(cover, blocks) ==
  IF blocks = <<>> THEN cover
  ELSE LET cells == CellsOf(Head(blocks))
       IN DecodeBlocks([x \in Cells |->
                          IF x \in cells THEN cover[x] + 1 ELSE cover[x]],
                       Tail(blocks))

Call(kind, b) ==
  [kind |-> kind, mi_row |-> b.mi_row, mi_col |-> b.mi_col, bsize |-> b.bsize]

\* the frames of the model for a root of n units: the root fits, the frame
\* ends one unit short of it, or the frame ends at its middle
EdgeDims(n) == {n, n - 1, n \div 2}

Subsamplings == {<<0, 0>>, <<1, 1>>, <<1, 0>>}

PartInit ==
  /\ RefOff
  /\ TileOff
  /\ QuantOff
  /\ LaterOff
  /\ part_pc = "walk"
  /\ \E k \in 1 .. MaxSbLog2, ss \in Subsamplings :
       \E rows \in EdgeDims(2 ^ k), cols \in EdgeDims(2 ^ k) :
         /\ part_cm = [mi_rows |-> rows, mi_cols |-> cols,
                       ss_x |-> ss[1], ss_y |-> ss[2]]
         /\ part_root = <<0, 0, <<2 ^ k, 2 ^ k>>>>
         /\ part_stack = <<Call("partition", Blk(0, 0, <<2 ^ k, 2 ^ k>>))>>
  /\ part_cover = [x \in Cells |-> 0]
  /\ part_read = NoPartitionRead

AfterCall(stack) == IF stack = <<>> THEN "done" ELSE "walk"

\* one call of decode_partition up to its recursive calls; the calls it makes
\* and its update of the partition context are left on the stack
DecodePartition(symbol) ==
  /\ part_pc = "walk"
  /\ UNCHANGED notPart
  /\ Head(part_stack).kind = "partition"
  /\ LET call == Head(part_stack)
         mi_row == call.mi_row
         mi_col == call.mi_col
         bsize == call.bsize
         hbs == mi_size_wide(bsize) \div 2
         has_rows == (mi_row + hbs) < part_cm.mi_rows
         has_cols == (mi_col + hbs) < part_cm.mi_cols
     IN IF mi_row >= part_cm.mi_rows \/ mi_col >= part_cm.mi_cols
        THEN /\ symbol = 0
             /\ part_stack' = Tail(part_stack)
             /\ part_pc' = AfterCall(Tail(part_stack))
             /\ part_read' = NoPartitionRead
             /\ UNCHANGED part_cover
        ELSE LET small == mi_size_wide(bsize) < 2 \/ mi_size_high(bsize) < 2
                 partition == IF small THEN "PARTITION_NONE"
                              ELSE read_partition(has_rows, has_cols, bsize,
                                                  symbol)
                 subsize == subsize_lookup(partition, bsize)
                 invalid == get_plane_block_size(subsize, part_cm.ss_x,
                                                 part_cm.ss_y) = BLOCK_INVALID
             IN /\ symbol \in (IF small THEN {0}
                               ELSE PartitionSymbols(has_rows, has_cols, bsize))
                /\ part_read' =
                     [has_rows |-> has_rows, has_cols |-> has_cols,
                      bsize |-> bsize,
                      reads |-> IF small THEN <<>>
                                ELSE read_partition_reads(has_rows, has_cols,
                                                          bsize),
                      partition |-> partition, subsize |-> subsize,
                      error_code |-> IF invalid THEN "CORRUPT_FRAME" ELSE "OK"]
                /\ IF invalid
                   THEN /\ part_pc' = "error"
                        /\ UNCHANGED <<part_stack, part_cover>>
                   ELSE /\ part_cover' =
                             DecodeBlocks(part_cover,
                               DecBlocks(partition, mi_row, mi_col, bsize,
                                         subsize, has_rows, has_cols, part_cm))
                        /\ LET sub == DecPartitions(partition, mi_row, mi_col,
                                                    bsize, subsize)
                           IN part_stack' =
                                [i \in 1 .. Len(sub) |->
                                   Call("partition", sub[i])]
                                \o <<Call("context", Blk(mi_row, mi_col, bsize))>>
                                \o Tail(part_stack)
                        /\ part_pc' = "walk"
  /\ UNCHANGED <<part_cm, part_root>>

\* update_ext_partition_context, after the calls of the switch have returned
UpdatePartitionContext ==
  /\ part_pc = "walk"
  /\ UNCHANGED notPart
  /\ Head(part_stack).kind = "context"
  /\ part_stack' = Tail(part_stack)
  /\ part_pc' = AfterCall(Tail(part_stack))
  /\ UNCHANGED <<part_cm, part_root, part_cover, part_read>>

PartNext ==
  \/ \E symbol \in 0 .. 9 : DecodePartition(symbol)
  \/ UpdatePartitionContext

SpecPart == PartInit /\ [][PartNext]_vars

RootCells == CellsOf(Blk(part_root[1], part_root[2], part_root[3]))

RootInsideFrame ==
  /\ part_root[1] + mi_size_high(part_root[3]) <= part_cm.mi_rows
  /\ part_root[2] + mi_size_wide(part_root[3]) <= part_cm.mi_cols

NoOverlap == \A x \in Cells : part_cover[x] <= 1

CoversRoot == \A x \in Cells : (part_cover[x] >= 1) <=> (x \in RootCells)

\* C5: for a region inside the frame and every sequence of partition symbols
\* the blocks handed to decode_block never overlap and never leave the
\* region, and when decode_partition returns their union is the region.
C5_PartitionTiling ==
  (part_pc # "off" /\ RootInsideFrame) =>
     /\ NoOverlap
     /\ \A x \in Cells : part_cover[x] >= 1 => x \in RootCells
     /\ part_pc = "done" => CoversRoot

\* a walk over the largest region, inside the frame, has returned with every
\* unit of the region decoded
C5_Witness ==
  /\ part_pc = "done"
  /\ RootInsideFrame
  /\ mi_size_wide(part_root[3]) = MaxMi
  /\ CoversRoot

\* C22: a region of 8x8 or more with its top-left inside the frame is
\* SPLIT without a symbol when neither half is inside the frame, HORZ or
\* SPLIT after exactly one binary symbol when only has_cols holds, VERT or
\* SPLIT after exactly one binary symbol when only has_rows holds, and is
\* read with the one multi-way partition symbol only when both hold; a
\* smaller region is NONE without a symbol.
C22_ReadPartition ==
  (part_pc # "off" /\ part_read.partition # "none") =>
    LET rd == part_read
    IN IF mi_size_wide(rd.bsize) < 2 \/ mi_size_high(rd.bsize) < 2
       THEN rd.partition = "PARTITION_NONE" /\ rd.reads = <<>>
       ELSE IF ~rd.has_rows /\ ~rd.has_cols
       THEN rd.partition = "PARTITION_SPLIT" /\ rd.reads = <<>>
       ELSE IF ~rd.has_rows /\ rd.has_cols
       THEN /\ rd.partition \in {"PARTITION_HORZ", "PARTITION_SPLIT"}
            /\ rd.reads = <<2>>
       ELSE IF rd.has_rows /\ ~rd.has_cols
       THEN /\ rd.partition \in {"PARTITION_VERT", "PARTITION_SPLIT"}
            /\ rd.reads = <<2>>
       ELSE /\ Len(rd.reads) = 1
            /\ rd.reads[1] = partition_cdf_length(rd.bsize)
            /\ rd.reads[1] >= 4

\* a region whose right half is inside the frame and whose lower half is
\* not has been read as HORZ from one binary symbol
C22_Witness ==
  /\ part_pc = "walk"
  /\ part_read.partition = "PARTITION_HORZ"
  /\ ~part_read.has_rows
  /\ part_read.has_cols
  /\ mi_size_wide(part_read.bsize) = 4
  /\ part_read.reads = <<2>>

\* a block size the chroma planes cannot carry: only its longer side is
\* subsampled
NoChromaBlock(bsize) ==
  \/ part_cm.ss_x = 1 /\ part_cm.ss_y = 0
       /\ mi_size_high(bsize) > mi_size_wide(bsize)
  \/ part_cm.ss_x = 0 /\ part_cm.ss_y = 1
       /\ mi_size_wide(bsize) > mi_size_high(bsize)

\* C23: when the sub-block size of the decoded partition has no valid
\* chroma block size under the frame's subsampling, decode_partition raises
\* CORRUPT_FRAME with no block of the region decoded and no partition
\* context updated, and the size it tested is the one the partition selects.
C23_InvalidChromaFatal ==
  [][(/\ part_pc = "walk"
      /\ Head(part_stack).kind = "partition"
      /\ part_read'.partition # "none"
      /\ NoChromaBlock(subsize_lookup(part_read'.partition,
                                      Head(part_stack).bsize)))
       => /\ part_pc' = "error"
          /\ part_read'.error_code = "CORRUPT_FRAME"
          /\ part_read'.subsize = subsize_lookup(part_read'.partition,
                                                 Head(part_stack).bsize)
          /\ part_cover' = part_cover
          /\ part_stack' = part_stack]_vars

\* a 4:2:2 frame whose walk ended on a vertical split of a square region,
\* after an earlier region of the walk had been decoded
C23_Witness ==
  /\ part_pc = "error"
  /\ part_read.error_code = "CORRUPT_FRAME"
  /\ part_read.partition \in {"PARTITION_VERT", "PARTITION_VERT_4"}
  /\ part_cm.ss_x = 1
  /\ part_cm.ss_y = 0
  /\ \E x \in Cells : part_cover[x] = 1
  /\ \E x \in CellsOf(Blk(Head(part_stack).mi_row, Head(part_stack).mi_col, Head(part_stack).bsize)) : part_cover[x] = 0

\* ------------------------------------------------------------------
\* Tile location, tile decoding and the frame wrap-up
\* ------------------------------------------------------------------
\* most tiles in a frame of the model
MaxTiles == 2

\* longest tile-group payload: a 4-byte size field and a byte for every tile
MaxPayload == MaxTiles + 4

NO_FILTER_FOR_IBC == 1
AV1_MIN_TILE_SIZE_BYTES == 1

Tiles == 0 .. (MaxTiles - 1)

\* <<tile_cols, tile_rows>>
TileLayouts ==
  {l \in (1 .. MaxTiles) \X (1 .. MaxTiles) : l[1] * l[2] <= MaxTiles}

\* a size_t above every payload length, standing for the value a negative
\* int converts to
SIZE_HUGE == 2 ^ 30

size_t(x) == IF x < 0 THEN SIZE_HUGE ELSE x

AOMMIN(a, b) == IF a < b THEN a ELSE b
AOMMAX(a, b) == IF a > b THEN a ELSE b

\* read_is_valid without its test for an empty range
read_is_valid_AnyLen(start, len, end) == len <= size_t(end - start)

read_is_valid(start, len, end) == len # 0 /\ len <= size_t(end - start)

\* The in-loop filter stages, from the fields the header has left in cm.
\* The planes av1_loop_filter_frame is called for, chroma first.
LoopFilterPlanes_ChromaFirst(num_planes) ==
  IF num_planes > 1 THEN <<"deblock_u", "deblock_v", "deblock_y">>
  ELSE <<"deblock_y">>

LoopFilterPlanes(num_planes) ==
  IF num_planes > 1 THEN <<"deblock_y", "deblock_u", "deblock_v">>
  ELSE <<"deblock_y">>

\* intra block copy never switches the filters off
FiltersOffForIbc_Never(c) == FALSE

FiltersOffForIbc(c) == c.allow_intrabc = 1 /\ NO_FILTER_FOR_IBC = 1

RestorationOn(c) ==
  \E p \in 1 .. 3 : c.frame_restoration_type[p] # "RESTORE_NONE"

\* decode_tiles, "Loopfilter the whole frame"
DeblockStages(c, endTile) ==
  IF /\ ~FiltersOffForIbc(c)
     /\ endTile = c.tile_rows * c.tile_cols - 1
     /\ (c.filter_level[1] # 0 \/ c.filter_level[2] # 0)
  THEN LoopFilterPlanes(c.num_planes)
  ELSE <<>>

CdefStages(c) ==
  IF /\ ~FiltersOffForIbc(c)
     /\ c.skip_loop_filter = 0
     /\ c.coded_lossless = 0
     /\ (c.cdef_bits # 0 \/ c.cdef_strengths # 0 \/ c.cdef_uv_strengths # 0)
  THEN <<"cdef">> ELSE <<>>

SuperresStages(c) ==
  IF ~FiltersOffForIbc(c) /\ c.superres_scaled = 1
  THEN <<"superres">> ELSE <<>>

RestorationStages(c) ==
  IF ~FiltersOffForIbc(c) /\ RestorationOn(c)
  THEN <<"restoration">> ELSE <<>>

set_single_tile_decoding_mode(c) ==
  IF c.large_scale_tile = 1
  THEN LET no_loopfilter == c.filter_level[1] = 0 /\ c.filter_level[2] = 0
           no_cdef == /\ c.cdef_bits = 0
                      /\ c.cdef_strengths = 0
                      /\ c.cdef_uv_strengths = 0
           no_restoration == ~RestorationOn(c)
       IN IF no_loopfilter /\ no_cdef /\ no_restoration THEN 1 ELSE 0
  ELSE 0

NoRestoration == <<"RESTORE_NONE", "RESTORE_NONE", "RESTORE_NONE">>
LumaRestoration == <<"RESTORE_WIENER", "RESTORE_NONE", "RESTORE_NONE">>

FilterConfig(lf, planes, cdef, sr, rst, ibc, lossless, skip) ==
  [filter_level |-> lf, num_planes |-> planes, cdef_bits |-> cdef,
   cdef_strengths |-> 0, cdef_uv_strengths |-> 0, superres_scaled |-> sr,
   frame_restoration_type |-> rst, allow_intrabc |-> ibc,
   coded_lossless |-> lossless, skip_loop_filter |-> skip]

\* the filter fields a header can leave: intra block copy and lossless
\* coding switch off the filters they exclude
FilterConfigs ==
  {FilterConfig(lf, 3, cdef, sr, rst, 0, 0, 0) :
     lf \in {<<0, 0>>, <<0, 1>>}, cdef \in {0, 1}, sr \in {0, 1},
     rst \in {NoRestoration, LumaRestoration}}
  \cup {FilterConfig(<<1, 0>>, 1, 1, 1, LumaRestoration, 0, 0, 0),
        FilterConfig(<<0, 0>>, 3, 0, 0, NoRestoration, 1, 0, 0),
        FilterConfig(<<0, 0>>, 3, 0, 0, NoRestoration, 0, 1, 0),
        FilterConfig(<<0, 0>>, 3, 0, 1, LumaRestoration, 0, 1, 0),
        FilterConfig(<<0, 1>>, 3, 1, 0, NoRestoration, 0, 0, 1)}

AllFilters == FilterConfig(<<0, 1>>, 3, 1, 1, LumaRestoration, 0, 0, 0)
SuperresOnly == FilterConfig(<<0, 0>>, 3, 0, 1, NoRestoration, 0, 0, 0)

\* the tiling a header and the decoder controls can leave: a large-scale
\* frame never adapts its context backwards and has one-byte size fields here
TilingConfigs ==
  {t \in [tile_cols : 1 .. MaxTiles, tile_rows : 1 .. MaxTiles,
          large_scale_tile : {0, 1}, tile_width : {64, 128},
          refresh_frame_context : {"BACKWARD", "DISABLED"},
          tile_size_bytes : {1, 4}, inv_tile_order : {0, 1},
          dec_tile : {0 - 1, 0}] :
     /\ <<t.tile_cols, t.tile_rows>> \in TileLayouts
     /\ t.large_scale_tile = 1 =>
          /\ t.refresh_frame_context = "DISABLED"
          /\ t.dec_tile = 0 => t.inv_tile_order = 0
     /\ t.large_scale_tile = 0 => t.dec_tile = 0 - 1 /\ t.tile_width = 64
     /\ t.tile_size_bytes = 4 <=>
          t.large_scale_tile = 0 /\ t.tile_cols * t.tile_rows > 1
     /\ t.tile_cols * t.tile_rows = 1 =>
          t.inv_tile_order = 0 /\ t.tile_width = 64}

BasicTilings ==
  {t \in TilingConfigs : /\ t.tile_cols = MaxTiles
                         /\ t.large_scale_tile = 0
                         /\ t.refresh_frame_context = "BACKWARD"
                         /\ t.inv_tile_order = 0}

\* <<tiling, filters>> of the frames of the model: every tiling with all
\* filters on, the large-scale ones also with the filters that allow a tile
\* selection, and every filter configuration under the basic tiling
FrameConfigs ==
  {x \in TilingConfigs \X FilterConfigs :
     \/ x[1] \in BasicTilings
     \/ x[2] = AllFilters
     \/ x[1].large_scale_tile = 1 /\ x[2] = SuperresOnly}

\* the frames of a stream whose every frame adapts its context backwards
BackwardConfigs ==
  {x \in FrameConfigs : /\ x[1].large_scale_tile = 0
                        /\ x[1].refresh_frame_context = "BACKWARD"
                        /\ x[1].inv_tile_order = 0
                        /\ x[2] = AllFilters}

NoTileData == [i \in Tiles |-> "none"]
NoCall == [startTile |-> 0, endTile |-> 0, data_end |-> 0, queue |-> <<>>,
           ndecoded |-> 0, copies |-> {}]

\* cm with the tiling t and the filter fields f of a header
TileCommon(t, f) ==
  f @@ [tile_cols |-> t.tile_cols, tile_rows |-> t.tile_rows,
        tile_width |-> t.tile_width, tile_height |-> t.tile_width,
        large_scale_tile |-> t.large_scale_tile,
        refresh_frame_context |-> t.refresh_frame_context]

InitialTiling ==
  [tile_cols |-> 1, tile_rows |-> 1, large_scale_tile |-> 0,
   tile_width |-> 64, refresh_frame_context |-> "DISABLED",
   tile_size_bytes |-> 1, inv_tile_order |-> 0, dec_tile |-> 0 - 1]

TileInit ==
  /\ RefOff
  /\ PartOff
  /\ QuantOff
  /\ LaterOff
  /\ tile_pc = "new"
  /\ tile_cm = TileCommon(InitialTiling,
                          FilterConfig(<<0, 0>>, 3, 0, 0, NoRestoration,
                                       0, 0, 0))
                @@ [single_tile_decoding |-> 0, largest_tile_size |-> 0,
                    largest_tile_id |-> 0, error_code |-> "OK",
                    raised_in |-> "none"]
  /\ tile_pbi = [dec_tile_row |-> 0 - 1, dec_tile_col |-> 0 - 1,
                 inv_tile_order |-> 0, tile_size_bytes |-> 1,
                 tile_col_size_bytes |-> 1, corrupted |-> 0,
                 allocated_tiles |-> 0]
  /\ tile_buffers = <<>>
  /\ tile_data = NoTileData
  /\ tg = NoCall
  /\ fc = [src |-> "none"]
  /\ frame_contexts = [src |-> "none"]
  /\ decoded = {}
  /\ stages = <<>>
  /\ oversize = FALSE

\* aom_internal_error from the stage named: the call is left
TileRaise(code, where) ==
  /\ tile_pc' = "error"
  /\ tile_cm' = [tile_cm EXCEPT !.error_code = code, !.raised_in = where]
  /\ tg' = [NoCall EXCEPT !.ndecoded = tg.ndecoded]
  /\ tile_buffers' = <<>>

\* av1_decode_frame_headers_and_setup for a frame that is not a shown
\* existing frame, once the calls for the frame before have ended: the
\* header has left x in cm, a tile selection the filters do not allow is
\* dropped, the frame context is loaded and the corrupted flag cleared
FrameSetup(x) ==
  /\ tile_pc \in {"new", "done", "error"}
  /\ UNCHANGED notTile
  /\ LET t == x[1]
         c == TileCommon(t, x[2])
         single == set_single_tile_decoding_mode(c)
         dec == IF single = 0 /\ t.dec_tile >= 0 THEN 0 - 1 ELSE t.dec_tile
     IN /\ tile_cm' = c @@ [single_tile_decoding |-> single,
                            largest_tile_size |-> tile_cm.largest_tile_size,
                            largest_tile_id |-> tile_cm.largest_tile_id,
                            error_code |-> "OK", raised_in |-> "none"]
        /\ tile_pbi' = [tile_pbi EXCEPT
                          !.dec_tile_row = dec, !.dec_tile_col = dec,
                          !.inv_tile_order = t.inv_tile_order,
                          !.tile_size_bytes = t.tile_size_bytes,
                          !.corrupted = 0]
  /\ tile_pc' = "idle"
  /\ fc' = [src |-> "setup"]
  /\ frame_contexts' = [src |-> "none"]
  /\ tile_data' = [i \in Tiles |->
                     IF tile_data[i] = "none" THEN "none" ELSE "stale"]
  /\ tile_buffers' = <<>>
  /\ tg' = NoCall
  /\ decoded' = {}
  /\ stages' = <<>>
  /\ oversize' = FALSE

\* get_tile_buffer.  field is the int mem_get_varsize returns for the size
\* field; a four-byte field of 2^31 and above is a negative int.
get_tile_buffer(data_end, tile_size_bytes, is_last, data, field) ==
  IF is_last
  THEN [error_code |-> "OK", data |-> data, size |-> data_end - data,
        next |-> data_end, oversize |-> FALSE]
  ELSE IF ~read_is_valid(data, tile_size_bytes, data_end)
  THEN [error_code |-> "CORRUPT_FRAME", data |-> data, size |-> 0,
        next |-> data, oversize |-> FALSE]
  ELSE LET size == size_t(field + AV1_MIN_TILE_SIZE_BYTES)
           d == data + tile_size_bytes
           over == field < 0 \/ field > data_end - d
       IN IF size > size_t(data_end - d)
          THEN [error_code |-> "CORRUPT_FRAME", data |-> d, size |-> size,
                next |-> d, oversize |-> over]
          ELSE [error_code |-> "OK", data |-> d, size |-> size,
                next |-> d + size, oversize |-> over]

\* the loop of get_tile_buffers from tile tc on.  st = [error_code, data,
\* bufs, largest_tile_size, largest_tile_id, oversize]
RECURSIVE get_tile_buffers_from(_, _, _, _, _, _)
get_tile_buffers_from(tc, n_tiles, st, call, tile_size_bytes, fields) ==
  IF tc = n_tiles \/ st.error_code # "OK" THEN st
  ELSE IF tc < call.startTile \/ tc > call.endTile
  THEN get_tile_buffers_from(tc + 1, n_tiles, st, call, tile_size_bytes,
                             fields)
  ELSE IF st.data >= call.data_end
  THEN [st EXCEPT !.error_code = "CORRUPT_FRAME"]
  ELSE LET b == get_tile_buffer(call.data_end, tile_size_bytes,
                                tc = call.endTile, st.data, fields[tc])
           larger == b.error_code = "OK" /\ b.size > st.largest_tile_size
       IN get_tile_buffers_from(tc + 1, n_tiles,
            [error_code |-> b.error_code,
             data |-> b.next,
             bufs |-> IF b.error_code = "OK"
                      THEN (tc :> [data |-> b.data, size |-> b.size])
                           @@ st.bufs
                      ELSE st.bufs,
             largest_tile_size |-> IF larger THEN b.size
                                   ELSE st.largest_tile_size,
             largest_tile_id |-> IF larger THEN tc ELSE st.largest_tile_id,
             oversize |-> st.oversize \/ b.oversize],
            call, tile_size_bytes, fields)

get_tile_buffers(c, call, tile_size_bytes, fields) ==
  get_tile_buffers_from(0, c.tile_rows * c.tile_cols,
    [error_code |-> "OK", data |-> 0, bufs |-> <<>>,
     largest_tile_size |-> IF call.startTile = 0 THEN 0
                           ELSE c.largest_tile_size,
     largest_tile_id |-> IF call.startTile = 0 THEN 0
                         ELSE c.largest_tile_id,
     oversize |-> FALSE],
    call, tile_size_bytes, fields)

\* the tiles of rows rs..re-1 and columns cs..ce-1 in raster order that lie
\* in the tile group, as <<tile_row, tile_col>>
TileLoop(rs, re, cs, ce, tile_cols, startTile, endTile) ==
  LET nc == ce - cs
      all == [k \in 1 .. ((re - rs) * nc) |->
                <<rs + ((k - 1) \div nc), cs + ((k - 1) % nc)>>]
  IN SelectSeq(all, LAMBDA rc :
                      /\ rc[1] * tile_cols + rc[2] >= startTile
                      /\ rc[1] * tile_cols + rc[2] <= endTile)

\* the tile ranges and loop orders decode_tiles derives
TileRanges(c, p) ==
  LET single_row == p.dec_tile_row >= 0
      single_col == p.dec_tile_col >= 0
      dec_tile_row == AOMMIN(p.dec_tile_row, c.tile_rows)
      dec_tile_col == AOMMIN(p.dec_tile_col, c.tile_cols)
  IN IF c.large_scale_tile = 1
     THEN [rows_start |-> IF single_row THEN dec_tile_row ELSE 0,
           rows_end |-> IF single_row THEN dec_tile_row + 1 ELSE c.tile_rows,
           cols_start |-> IF single_col THEN dec_tile_col ELSE 0,
           cols_end |-> IF single_col THEN dec_tile_col + 1 ELSE c.tile_cols,
           inv_col_order |-> p.inv_tile_order = 1 /\ ~single_col,
           inv_row_order |-> p.inv_tile_order = 1 /\ ~single_row]
     ELSE [rows_start |-> 0, rows_end |-> c.tile_rows,
           cols_start |-> 0, cols_end |-> c.tile_cols,
           inv_col_order |-> p.inv_tile_order = 1,
           inv_row_order |-> p.inv_tile_order = 1]

\* the size-field ints of the model: 0 - 1 is the field 0xFFFFFFFF
FieldInts(tile_size_bytes) ==
  IF tile_size_bytes = 4 THEN {0, 1, 0 - 1, 0 - 2} ELSE {0, 1}

\* one field per tile of the group but its last; the others are not read
GroupFields(startTile, endTile, tile_size_bytes) ==
  {f \in [Tiles -> FieldInts(tile_size_bytes)] :
     \A i \in Tiles : (i < startTile \/ i >= endTile) => f[i] = 0}

\* the allocation of pbi->tile_data in decode_tiles
AllocTileData(n_tiles) ==
  IF tile_pbi.allocated_tiles # n_tiles THEN NoTileData ELSE tile_data

\* the call begins: its tile group and payload
BeginCall(startTile, endTile, data_end) ==
  [NoCall EXCEPT !.startTile = startTile, !.endTile = endTile,
                 !.data_end = data_end]

\* the end of get_tile_buffers or get_ls_tile_buffers and the allocation
\* after it
Located(call, st, n_tiles, largest_size, largest_id) ==
  /\ oversize' = st.oversize
  /\ IF st.error_code # "OK"
     THEN /\ tile_pc' = "error"
          /\ tile_cm' = [tile_cm EXCEPT
                           !.largest_tile_size = largest_size,
                           !.largest_tile_id = largest_id,
                           !.error_code = st.error_code,
                           !.raised_in = "locate"]
          /\ tg' = NoCall
          /\ tile_buffers' = <<>>
          /\ UNCHANGED <<tile_data, tile_pbi>>
     ELSE /\ tile_pc' = "init"
          /\ tg' = [call EXCEPT !.copies = st.copies]
          /\ tile_buffers' = st.bufs
          /\ tile_cm' = [tile_cm EXCEPT
                           !.largest_tile_size = largest_size,
                           !.largest_tile_id = largest_id]
          /\ tile_data' = AllocTileData(n_tiles)
          /\ tile_pbi' = [tile_pbi EXCEPT !.allocated_tiles = n_tiles]

\* av1_decode_tg_tiles_and_wrapup up to the tile_data allocation of
\* decode_tiles, for a frame without large-scale tiles
GetTileBuffers(startTile, endTile, data_end, fields) ==
  /\ tile_pc = "idle"
  /\ UNCHANGED notTile
  /\ tile_cm.large_scale_tile = 0
  /\ startTile <= endTile
  /\ endTile < tile_cm.tile_rows * tile_cm.tile_cols
  /\ LET call == BeginCall(startTile, endTile, data_end)
         st == get_tile_buffers(tile_cm, call, tile_pbi.tile_size_bytes,
                                fields)
     IN Located(call, [copies |-> {}] @@ st,
                tile_cm.tile_rows * tile_cm.tile_cols,
                st.largest_tile_size, st.largest_tile_id)
  /\ UNCHANGED <<fc, frame_contexts, decoded, stages>>

\* the size-field bytes of a large-scale frame: sizes, and row offsets
\* under the copy bit
FieldBytes == {0, 1, 128, 129}

\* what an entry of tile_buffers not written by this call, or an entry
\* outside the array, can hold: an empty range, a range inside the payload
\* or a range of some other memory
StaleBuffers == {[data |-> 0, size |-> 0], [data |-> 0, size |-> 1], [data |-> MaxPayload + 1, size |-> 1]}

\* get_ls_tile_buffer.  st = [error_code, data, bufs, oversize, copies];
\* oversize records a field above the bytes left, for a tile that is not the
\* frame's last; copies records <<row, col, offset>> of every tile whose
\* buffer was taken from tile_buffers[row - offset][col]
get_ls_tile_buffer(col_end, st, tile_size_bytes, tile_cols, col, row, tile_copy_mode, field, stale, is_last) ==
  IF ~read_is_valid(st.data, tile_size_bytes, col_end)
  THEN [st EXCEPT !.error_code = "CORRUPT_FRAME"]
  ELSE LET copy == /\ tile_copy_mode = 1
                   /\ field \div (2 ^ (tile_size_bytes * 8 - 1)) = 1
           offset == (field \div (2 ^ ((tile_size_bytes - 1) * 8))) % 128
           from == (row - offset) * tile_cols + col
           copied == IF row - offset >= 0 /\ from \in DOMAIN st.bufs
                     THEN st.bufs[from] ELSE stale
           size == IF copy THEN 0 ELSE field + AV1_MIN_TILE_SIZE_BYTES
           d == st.data + tile_size_bytes
           over == st.oversize \/ (~is_last /\ field > col_end - d)
       IN IF size > size_t(col_end - d)
          THEN [st EXCEPT !.error_code = "CORRUPT_FRAME", !.data = d,
                          !.oversize = over]
          ELSE [error_code |-> "OK",
                data |-> d + size,
                bufs |-> ((row * tile_cols + col) :>
                            (IF size > 0 THEN [data |-> d, size |-> size]
                             ELSE copied)) @@ st.bufs,
                oversize |-> over,
                copies |-> IF copy THEN st.copies \cup {<<row, col, offset>>}
                           ELSE st.copies]

\* the columns get_ls_tile_buffers walks: the selected ones, then the last
LsColumns(r, tile_cols) ==
  [i \in 1 .. (r.cols_end - r.cols_start) |-> r.cols_start + i - 1]
  \o (IF r.cols_end # tile_cols THEN <<tile_cols - 1>> ELSE <<>>)

\* the tiles get_ls_tile_buffers locates, in order, as <<col, row>>
RECURSIVE LsTiles(_, _, _)
LsTiles(columns, r, c) ==
  IF columns = <<>> THEN <<>>
  ELSE LET col == Head(columns)
           nrows == IF col = c.tile_cols - 1 THEN c.tile_rows ELSE r.rows_end
       IN [i \in 1 .. nrows |-> <<col, i - 1>>]
          \o LsTiles(Tail(columns), r, c)

\* where column col starts and ends: col_len[c] is the tile_col_size field
\* of column c
RECURSIVE ColumnStart(_, _, _)
ColumnStart(col, col_len, col_size_bytes) ==
  IF col = 0 THEN 0
  ELSE ColumnStart(col - 1, col_len, col_size_bytes) + col_size_bytes
       + col_len[col - 1]

ColumnEnd(col, c, col_len, col_size_bytes, data_end) ==
  IF col = c.tile_cols - 1 THEN data_end
  ELSE ColumnStart(col + 1, col_len, col_size_bytes)

RECURSIVE get_ls_tile_buffers_from(_, _, _, _, _, _, _, _)
get_ls_tile_buffers_from(todo, st, c, p, col_len, data_end, fields, stale) ==
  IF todo = <<>> \/ st.error_code # "OK" THEN st
  ELSE LET col == Head(todo)[1]
           row == Head(todo)[2]
           is_last == col = c.tile_cols - 1
           start == ColumnStart(col, col_len, p.tile_col_size_bytes)
                    + (IF is_last THEN 0 ELSE p.tile_col_size_bytes)
           tile_copy_mode ==
             IF AOMMAX(c.tile_width, c.tile_height) * 4 <= 256 THEN 1 ELSE 0
       IN get_ls_tile_buffers_from(Tail(todo),
            get_ls_tile_buffer(
              ColumnEnd(col, c, col_len, p.tile_col_size_bytes, data_end),
              IF row = 0 THEN [st EXCEPT !.data = start] ELSE st,
              p.tile_size_bytes, c.tile_cols, col, row, tile_copy_mode,
              fields[row * c.tile_cols + col], stale,
              row * c.tile_cols + col = c.tile_rows * c.tile_cols - 1),
            c, p, col_len, data_end, fields, stale)

get_ls_tile_buffers(c, p, col_len, data_end, fields, stale) ==
  IF c.tile_cols * c.tile_rows <= 1
  THEN [error_code |-> "OK", data |-> 0,
        bufs |-> (0 :> [data |-> 0, size |-> data_end]), oversize |-> FALSE,
        copies |-> {}]
  ELSE LET r == TileRanges(c, p)
       IN get_ls_tile_buffers_from(LsTiles(LsColumns(r, c.tile_cols), r, c),
            [error_code |-> "OK", data |-> 0, bufs |-> <<>>,
             oversize |-> FALSE, copies |-> {}],
            c, p, col_len, data_end, fields, stale)

\* the tiles get_ls_tile_buffers locates, as indices
LsLocated(c, p) ==
  LET r == TileRanges(c, p)
      ts == LsTiles(LsColumns(r, c.tile_cols), r, c)
  IN {ts[i][2] * c.tile_cols + ts[i][1] : i \in 1 .. Len(ts)}

\* av1_decode_tg_tiles_and_wrapup up to the tile_data allocation of
\* decode_tiles, for a large-scale frame; its one tile group is the frame
GetLsTileBuffers(data_end, col_len, fields, stale) ==
  /\ tile_pc = "idle"
  /\ UNCHANGED notTile
  /\ tile_cm.large_scale_tile = 1
  /\ LET n_tiles == tile_cm.tile_rows * tile_cm.tile_cols
     IN Located(BeginCall(0, n_tiles - 1, data_end),
                get_ls_tile_buffers(tile_cm, tile_pbi, col_len, data_end,
                                    fields, stale),
                n_tiles, tile_cm.largest_tile_size, tile_cm.largest_tile_id)
  /\ UNCHANGED <<fc, frame_contexts, decoded, stages>>

\* the loop "Load all tile information into tile_data": setup_bool_decoder
\* rejects an empty range and one that ends after the payload
RECURSIVE InitLoop(_, _, _)
InitLoop(todo, td, tile_cols) ==
  IF todo = <<>> THEN [error_code |-> "OK", tile_data |-> td]
  ELSE LET i == Head(todo)[1] * tile_cols + Head(todo)[2]
           buf == tile_buffers[i]
       IN IF ~read_is_valid(buf.data, buf.size, tg.data_end)
          THEN [error_code |-> "CORRUPT_FRAME", tile_data |-> td]
          ELSE InitLoop(Tail(todo), [td EXCEPT ![i] = "init"], tile_cols)

\* the tiles the decode loop hands to decode_tile, in order
DecodeOrder(loop, r, c) ==
  [k \in 1 .. Len(loop) |->
     <<IF r.inv_row_order THEN c.tile_rows - 1 - loop[k][1] ELSE loop[k][1],
       IF r.inv_col_order THEN c.tile_cols - 1 - loop[k][2] ELSE loop[k][2]>>]

InitTileData ==
  /\ tile_pc = "init"
  /\ UNCHANGED notTile
  /\ LET r == TileRanges(tile_cm, tile_pbi)
         loop == TileLoop(r.rows_start, r.rows_end, r.cols_start, r.cols_end,
                          tile_cm.tile_cols, tg.startTile, tg.endTile)
         res == InitLoop(loop, tile_data, tile_cm.tile_cols)
     IN /\ tile_data' = res.tile_data
        /\ IF res.error_code # "OK"
           THEN TileRaise(res.error_code, "init")
           ELSE /\ tg' = [tg EXCEPT !.queue = DecodeOrder(loop, r, tile_cm),
                                    !.data_end = 0, !.copies = {}]
                /\ tile_buffers' = <<>>
                /\ tile_pc' = "decode"
                /\ UNCHANGED tile_cm
  /\ UNCHANGED <<tile_pbi, fc, frame_contexts, decoded, stages, oversize>>

\* decode_tile for the next tile of the loop.  A tile whose reader reports
\* an error, or whose tile_data this call has not set up, can fail: the
\* corrupted flag is merged at the end of the superblock row and
\* CORRUPT_FRAME raised.
DecodeTile(outcome) ==
  /\ tile_pc = "decode"
  /\ UNCHANGED notTile
  /\ tg.queue # <<>>
  /\ LET i == tile_cm.tile_cols * Head(tg.queue)[1] + Head(tg.queue)[2]
     IN IF outcome = "corrupt"
        THEN /\ tile_pbi' = [tile_pbi EXCEPT !.corrupted = 1]
             /\ TileRaise("CORRUPT_FRAME", "decode")
             /\ UNCHANGED <<tile_data, decoded>>
        ELSE /\ tile_data' = [tile_data EXCEPT ![i] = "adapted"]
             /\ decoded' = decoded \cup {i}
             /\ tg' = [tg EXCEPT !.queue = Tail(@), !.ndecoded = @ + 1]
             /\ tile_pc' = IF Tail(tg.queue) = <<>> THEN "deblock"
                           ELSE "decode"
             /\ UNCHANGED <<tile_cm, tile_pbi, tile_buffers>>
  /\ UNCHANGED <<fc, frame_contexts, stages, oversize>>

\* the end of decode_tiles: the deblocking filter after the last tile
\* group; av1_decode_tg_tiles_and_wrapup returns here for any other group
LoopFilterFrame ==
  /\ tile_pc = "deblock"
  /\ UNCHANGED notTile
  /\ stages' = stages \o DeblockStages(tile_cm, tg.endTile)
  /\ IF tg.endTile # tile_cm.tile_rows * tile_cm.tile_cols - 1
     THEN tile_pc' = "idle" /\ tg' = NoCall
     ELSE tile_pc' = "cdef" /\ UNCHANGED tg
  /\ UNCHANGED <<tile_cm, tile_pbi, tile_buffers, tile_data, fc,
                 frame_contexts, decoded, oversize>>

CdefFrame ==
  /\ tile_pc = "cdef"
  /\ UNCHANGED notTile
  /\ stages' = stages \o CdefStages(tile_cm)
  /\ tile_pc' = "superres"
  /\ UNCHANGED <<tile_cm, tile_pbi, tile_buffers, tile_data, tg, fc,
                 frame_contexts, decoded, oversize>>

superres_post_decode ==
  /\ tile_pc = "superres"
  /\ UNCHANGED notTile
  /\ stages' = stages \o SuperresStages(tile_cm)
  /\ tile_pc' = "restoration"
  /\ UNCHANGED <<tile_cm, tile_pbi, tile_buffers, tile_data, tg, fc,
                 frame_contexts, decoded, oversize>>

LoopRestorationFrame ==
  /\ tile_pc = "restoration"
  /\ UNCHANGED notTile
  /\ stages' = stages \o RestorationStages(tile_cm)
  /\ tile_pc' = "context"
  /\ UNCHANGED <<tile_cm, tile_pbi, tile_buffers, tile_data, tg, fc,
                 frame_contexts, decoded, oversize>>

\* pbi->tile_data[cm->largest_tile_id].tctx: an index past the allocation
\* reads whatever lies there
LargestTileContext ==
  [src |-> "tile", tile |-> tile_cm.largest_tile_id,
   tctx |-> IF tile_cm.largest_tile_id < tile_pbi.allocated_tiles
            THEN tile_data[tile_cm.largest_tile_id] ELSE "none"]

\* the end of av1_decode_tg_tiles_and_wrapup: the backward update of the
\* frame context and its copy into frame_contexts[new_fb_idx]
RefreshFrameContext ==
  /\ tile_pc = "context"
  /\ UNCHANGED notTile
  /\ IF tile_pbi.corrupted # 0
     THEN /\ TileRaise("CORRUPT_FRAME", "wrapup")
          /\ UNCHANGED <<fc, frame_contexts>>
     ELSE /\ UNCHANGED <<tg, tile_buffers>>
          /\ fc' = IF tile_cm.refresh_frame_context = "BACKWARD"
                   THEN LargestTileContext ELSE fc
          /\ frame_contexts' = IF tile_cm.large_scale_tile = 0 THEN fc'
                               ELSE frame_contexts
          /\ tile_pc' = "done"
          /\ UNCHANGED tile_cm
  /\ UNCHANGED <<tile_pbi, tile_data, decoded, stages, oversize>>

PayloadLens == 0 .. MaxPayload

\* the tile_col_size fields of a large-scale payload of data_end bytes: every
\* column but the last has one, and every column lies inside the payload
LsColumnLens(c, p, data_end) ==
  {col_len \in [Tiles -> 0 .. 3] :
     \A col \in Tiles :
       IF col < c.tile_cols - 1
       THEN ColumnStart(col + 1, col_len, p.tile_col_size_bytes) <= data_end
       ELSE col_len[col] = 0}

\* one size field for every tile get_ls_tile_buffers locates
LsFields(c, p) ==
  {f \in [Tiles -> FieldBytes] :
     \A i \in Tiles :
       (c.tile_cols * c.tile_rows = 1 \/ i \notin LsLocated(c, p))
         => f[i] = 0}

\* one frame of a fresh decoder, under every tiling and filter configuration
TileNext ==
  \/ tile_pc = "new" /\ \E x \in FrameConfigs : FrameSetup(x)
  \/ /\ tile_pc = "idle"
     /\ tile_cm.large_scale_tile = 0
     /\ \E startTile \in Tiles, endTile \in Tiles, data_end \in PayloadLens :
          \E fields \in GroupFields(startTile, endTile,
                                    tile_pbi.tile_size_bytes) :
            GetTileBuffers(startTile, endTile, data_end, fields)
  \/ /\ tile_pc = "idle"
     /\ tile_cm.large_scale_tile = 1
     /\ \E data_end \in PayloadLens, stale \in StaleBuffers :
          \E col_len \in LsColumnLens(tile_cm, tile_pbi, data_end),
             fields \in LsFields(tile_cm, tile_pbi) :
            GetLsTileBuffers(data_end, col_len, fields, stale)
  \/ InitTileData
  \/ \E outcome \in {"ok", "corrupt"} : DecodeTile(outcome)
  \/ LoopFilterFrame
  \/ CdefFrame
  \/ superres_post_decode
  \/ LoopRestorationFrame
  \/ RefreshFrameContext

SpecTiles == TileInit /\ [][TileNext]_vars

\* a stream of frames that adapt their contexts backwards
FramesNext ==
  \/ \E x \in BackwardConfigs : FrameSetup(x)
  \/ /\ tile_pc = "idle"
     /\ \E startTile \in Tiles, endTile \in Tiles, data_end \in PayloadLens :
          \E fields \in GroupFields(startTile, endTile,
                                    tile_pbi.tile_size_bytes) :
            GetTileBuffers(startTile, endTile, data_end, fields)
  \/ InitTileData
  \/ \E outcome \in {"ok", "corrupt"} : DecodeTile(outcome)
  \/ LoopFilterFrame
  \/ CdefFrame
  \/ superres_post_decode
  \/ LoopRestorationFrame
  \/ RefreshFrameContext

SpecTileFrames == TileInit /\ [][FramesNext]_vars

\* C17: once the tile buffers are located, every tile's byte range lies
\* inside the payload; without large-scale tiles every size is at least 1,
\* the ranges of distinct tiles are disjoint and in increasing tile order,
\* and the last tile of the group ends at data_end
C17_TileRanges ==
  tile_pc = "init" =>
    /\ \A i \in DOMAIN tile_buffers :
         /\ tile_buffers[i].data >= 0
         /\ tile_buffers[i].data + tile_buffers[i].size <= tg.data_end
    /\ tile_cm.large_scale_tile = 0 =>
         /\ \A i \in DOMAIN tile_buffers : tile_buffers[i].size >= 1
         /\ \A i \in DOMAIN tile_buffers, j \in DOMAIN tile_buffers :
              i < j => tile_buffers[i].data + tile_buffers[i].size <= tile_buffers[j].data
         /\ tile_buffers[tg.endTile].data + tile_buffers[tg.endTile].size = tg.data_end

\* C18: while tiles decode, the live frame context is the one the header
\* set up, and every tile the call has still to decode holds the copy of it
\* that this call's tile_data loop made before the first decode_tile
C18_TileStartContext ==
  tile_pc = "decode" =>
    /\ fc.src = "setup"
    /\ \A k \in 1 .. Len(tg.queue) :
         tile_data[tile_cm.tile_cols * tg.queue[k][1] + tg.queue[k][2]] = "init"

\* C27: in large-scale tile mode a tile whose header asks for a copy with
\* row offset k takes the buffer of an earlier row of its column:
\* 0 <= row - k < row
C27_CopyFromEarlierRow ==
  \A cp \in tg.copies : 0 <= cp[1] - cp[3] /\ cp[1] - cp[3] < cp[1]

\* the tiles whose tile_data the loop of this call has set up
InitialisedTiles ==
  LET r == TileRanges(tile_cm, tile_pbi)
      loop == TileLoop(r.rows_start, r.rows_end, r.cols_start, r.cols_end,
                       tile_cm.tile_cols, tg.startTile, tg.endTile)
  IN {loop[k][1] * tile_cm.tile_cols + loop[k][2] : k \in 1 .. Len(loop)}

\* C28: before the first decode_tile of a call, the tiles the decode loop
\* will hand to decode_tile are exactly the tiles whose tile_data the call
\* has set up, whatever startTile, endTile and inv_tile_order are
C28_DecodedAreInitialised ==
  (tile_pc = "decode" /\ tg.ndecoded = 0) =>
    {tg.queue[k][1] * tile_cm.tile_cols + tg.queue[k][2] : k \in 1 .. Len(tg.queue)}
      = InitialisedTiles

\* the tiles of the frame
FrameTiles == 0 .. (tile_cm.tile_rows * tile_cm.tile_cols - 1)

StageOrder ==
  <<"deblock_y", "deblock_u", "deblock_v", "cdef", "superres", "restoration">>

StageRank(s) == CHOOSE i \in 1 .. Len(StageOrder) : StageOrder[i] = s

C9_TileBarrier ==
  (tile_pc # "off" /\ stages # <<>>) => decoded = FrameTiles

\* C10 as stated: the frame context is written from a tile only at the end
\* of the frame, after its last tile was decoded, under backward adaptation
\* and a clear corrupted flag, and what is written is the context adapted by
\* the decode of tile largest_tile_id in this frame; a set corrupted flag
\* raises CORRUPT_FRAME and writes neither context.
C10_ContextWriteBack ==
  tile_pc # "off" =>
    /\ fc.src = "tile" =>
         /\ tile_pc = "done"
         /\ tile_cm.tile_rows * tile_cm.tile_cols - 1 \in decoded
         /\ tile_cm.refresh_frame_context = "BACKWARD"
         /\ tile_pbi.corrupted = 0
         /\ fc.tile = tile_cm.largest_tile_id
         /\ fc.tile \in decoded
         /\ fc.tctx = "adapted"
    /\ (tile_pc = "error" /\ tile_cm.raised_in = "wrapup") =>
         /\ tile_cm.error_code = "CORRUPT_FRAME"
         /\ fc.src = "setup"
         /\ frame_contexts.src = "none"

\* ---------------------------------------------------------------------
\* Lossless coding: the quantiser part of read_uncompressed_header, the
\* transform size of a block, and the in-loop filters of a one-tile frame.

\* segments per frame in the model (MAX_SEGMENTS in the source)
MaxSegments == 2

Segments == 0 .. (MaxSegments - 1)

MAXQ == 255

BLOCK_4X4 == <<1, 1>>

clamp(x, lo, hi) == IF x < lo THEN lo ELSE IF x > hi THEN hi ELSE x

\* the chroma part of a colour header's quantiser fields; v is read only
\* under diff_uv_delta
ChromaDeltas ==
  {[diff_uv_delta |-> 0, u_dc |-> 0, u_ac |-> 0, v_dc |-> 0, v_ac |-> 0],
   [diff_uv_delta |-> 0, u_dc |-> 1, u_ac |-> 0, v_dc |-> 0, v_ac |-> 0],
   [diff_uv_delta |-> 0, u_dc |-> 0, u_ac |-> 1, v_dc |-> 0, v_ac |-> 0],
   [diff_uv_delta |-> 1, u_dc |-> 0, u_ac |-> 0, v_dc |-> 1, v_ac |-> 0],
   [diff_uv_delta |-> 1, u_dc |-> 0, u_ac |-> 0, v_dc |-> 0, v_ac |-> 1]}

NoChroma == [diff_uv_delta |-> 0, u_dc |-> 0, u_ac |-> 0, v_dc |-> 0,
             v_ac |-> 0]

\* what a sequence header and a frame header carry: a monochrome header has
\* no chroma deltas; alt_q is the SEG_LVL_ALT_Q data of the last segment
\* these are headers of frames without a primary reference and without
\* intra block copy: no update flag of the segmentation is coded
QuantHeaders ==
  {h \in [monochrome : {0, 1}, base_qindex : {0, 1}, y_dc_delta_q : {0, 1},
          chroma : ChromaDeltas, seg_enabled : {0, 1}, alt_q : {0, 1},
          superres_scaled : {0, 1}, tx_mode_select : {0, 1},
          primary_ref_frame : {PRIMARY_REF_NONE}, update_map : {0},
          temporal_update : {0}, update_data : {0}, allow_intrabc : {0}] :
     /\ h.monochrome = 1 => h.chroma = NoChroma
     /\ h.alt_q = h.seg_enabled}

\* headers of colour frames that may have a primary reference (the frame
\* decoded before) or allow intra block copy; a field the header does not
\* code is 0
ParamHeaders ==
  {h \in [monochrome : {0}, base_qindex : {0, 1}, y_dc_delta_q : {0},
          chroma : {NoChroma}, seg_enabled : {0, 1}, alt_q : {0, 1},
          superres_scaled : {0, 1}, tx_mode_select : {0},
          primary_ref_frame : {PRIMARY_REF_NONE, 0}, update_map : {0, 1},
          temporal_update : {0, 1}, update_data : {0, 1},
          allow_intrabc : {0, 1}] :
     /\ h.allow_intrabc = 1 =>
          h.primary_ref_frame = PRIMARY_REF_NONE /\ h.superres_scaled = 0
     /\ (h.seg_enabled = 0 \/ h.primary_ref_frame = PRIMARY_REF_NONE) =>
          h.update_map = 0 /\ h.update_data = 0
     /\ h.update_map = 0 => h.temporal_update = 0
     /\ (h.seg_enabled = 0
          \/ (h.primary_ref_frame # PRIMARY_REF_NONE /\ h.update_data = 0)) =>
          h.alt_q = 0}

\* the filter fields a header codes where it codes them: every filter on
CodedFilters == [filter_level |-> <<1, 1>>, cdef_bits |-> 1]

av1_num_planes(c) == IF c.monochrome = 1 THEN 1 ELSE 3

\* setup_quantization: the chroma deltas are assigned only when the frame
\* has chroma planes
setup_quantization(c, h) ==
  LET q == [c EXCEPT !.base_qindex = h.base_qindex,
                     !.y_dc_delta_q = h.y_dc_delta_q]
  IN IF av1_num_planes(c) > 1
     THEN [q EXCEPT
             !.u_dc_delta_q = h.chroma.u_dc,
             !.u_ac_delta_q = h.chroma.u_ac,
             !.v_dc_delta_q = IF h.chroma.diff_uv_delta = 1
                              THEN h.chroma.v_dc ELSE h.chroma.u_dc,
             !.v_ac_delta_q = IF h.chroma.diff_uv_delta = 1
                              THEN h.chroma.v_ac ELSE h.chroma.u_ac]
     ELSE q

\* memset(seg, 0, sizeof(*seg))
ZeroSeg ==
  [enabled |-> 0, update_map |-> 0, temporal_update |-> 0, update_data |-> 0,
   alt_q |-> [i \in Segments |-> 0]]

\* cm->prev_frame = NULL
NullFrame == [present |-> 0, seg |-> ZeroSeg.alt_q]

\* the update flags are read from the header whatever the primary reference
SegFlagsForced_Never(primary_ref_frame) == FALSE

\* frames without a primary reference must signal the map and the features
SegFlagsForced(primary_ref_frame) == primary_ref_frame = PRIMARY_REF_NONE

\* setup_segmentation, with the quantiser feature as the feature data.
\* seg_bits are the syntax elements it reads, seg_from says whether the
\* feature data was read from the header or copied from prev_frame.
setup_segmentation(c, h) ==
  IF h.seg_enabled = 0
  THEN [c EXCEPT !.seg = ZeroSeg, !.cur_frame_seg = ZeroSeg.alt_q,
                 !.seg_bits = {"enabled"}, !.seg_from = {}]
  ELSE LET forced == SegFlagsForced(c.primary_ref_frame)
           update_map == IF forced THEN 1 ELSE h.update_map
           temporal_update == IF forced THEN 0
                              ELSE IF update_map = 1 THEN h.temporal_update
                              ELSE 0
           update_data == IF forced THEN 1 ELSE h.update_data
           features ==
             IF update_data = 1
             THEN [i \in Segments |->
                     IF i = MaxSegments - 1 THEN h.alt_q ELSE 0]
             ELSE IF c.prev_frame.present = 1 THEN c.prev_frame.seg
             ELSE c.seg.alt_q
       IN [c EXCEPT
             !.seg = [enabled |-> 1, update_map |-> update_map,
                      temporal_update |-> temporal_update,
                      update_data |-> update_data, alt_q |-> features],
             !.cur_frame_seg = features,
             !.seg_bits =
                {"enabled"}
                \cup (IF forced THEN {} ELSE {"update_map", "update_data"})
                \cup (IF ~forced /\ update_map = 1
                      THEN {"temporal_update"} ELSE {})
                \cup (IF update_data = 1 THEN {"feature_data"} ELSE {}),
             !.seg_from =
                IF update_data = 1 THEN {"read"}
                ELSE IF c.prev_frame.present = 1 THEN {"copied"} ELSE {}]

av1_get_qindex(seg, segment_id, base_qindex) ==
  IF seg.alt_q[segment_id] # 0
  THEN clamp(base_qindex + seg.alt_q[segment_id], 0, MAXQ)
  ELSE base_qindex

\* the qindex loop of read_uncompressed_header
SegmentQIndex(c) ==
  [i \in Segments |->
     IF c.seg.enabled = 1 THEN av1_get_qindex(c.seg, i, c.base_qindex)
     ELSE c.base_qindex]

SegmentLossless(c) ==
  [i \in Segments |->
     /\ SegmentQIndex(c)[i] = 0
     /\ c.y_dc_delta_q = 0
     /\ c.u_dc_delta_q = 0
     /\ c.u_ac_delta_q = 0
     /\ c.v_dc_delta_q = 0
     /\ c.v_ac_delta_q = 0]

is_coded_lossless(lossless) ==
  IF \A i \in Segments : lossless[i] THEN 1 ELSE 0

\* coded_lossless, all_lossless and the filter fields they clear
SetLossless(c) ==
  LET coded == is_coded_lossless(SegmentLossless(c))
      all == IF coded = 1 /\ c.superres_scaled = 0 THEN 1 ELSE 0
      off == coded = 1 \/ c.enable_cdef = 0
  IN [c EXCEPT
        !.coded_lossless = coded,
        !.all_lossless = all,
        !.filter_level = IF coded = 1 THEN <<0, 0>> ELSE @,
        !.cdef_bits = IF off THEN 0 ELSE @,
        !.cdef_strengths = IF off THEN 0 ELSE @,
        !.cdef_uv_strengths = IF off THEN 0 ELSE @,
        !.frame_restoration_type =
           IF all = 1 \/ c.enable_restoration = 0 THEN NoRestoration ELSE @]

\* the parameters of no filtering that a header sets before its tile info
\* when the frame allows intra block copy
NoFilterForIbc(c) ==
  IF FiltersOffForIbc(c)
  THEN [c EXCEPT !.filter_level = <<0, 0>>, !.cdef_bits = 0,
                 !.cdef_strengths = 0, !.cdef_uv_strengths = 0,
                 !.frame_restoration_type = NoRestoration]
  ELSE c

\* filter_bits are the filter syntax elements the header has read
setup_loopfilter(c) ==
  IF FiltersOffForIbc(c) \/ c.coded_lossless = 1 THEN c
  ELSE [c EXCEPT !.filter_level = CodedFilters.filter_level,
                 !.filter_bits = @ \cup {"loopfilter"}]

setup_cdef(c) ==
  IF FiltersOffForIbc(c) THEN c
  ELSE [c EXCEPT !.cdef_bits = CodedFilters.cdef_bits, !.cdef_strengths = 0,
                 !.cdef_uv_strengths = 0,
                 !.filter_bits = @ \cup {"cdef"}]

\* the planes past num_planes keep their types
decode_restoration_mode(c) ==
  IF FiltersOffForIbc(c) THEN c
  ELSE [c EXCEPT !.frame_restoration_type =
          [p \in 1 .. 3 |-> IF p <= av1_num_planes(c)
                            THEN LumaRestoration[p] ELSE @[p]],
                 !.filter_bits = @ \cup {"restoration"}]

read_tx_mode(c, h) ==
  IF c.coded_lossless = 1 THEN "ONLY_4X4"
  ELSE IF h.tx_mode_select = 1 THEN "TX_MODE_SELECT" ELSE "TX_MODE_LARGEST"

\* the filter calls of read_uncompressed_header after the lossless flags
SetupFilters(c) ==
  LET lf == setup_loopfilter(c)
      cdef == IF lf.coded_lossless = 0 /\ lf.enable_cdef = 1
              THEN setup_cdef(lf) ELSE lf
  IN IF cdef.all_lossless = 0 /\ cdef.enable_restoration = 1
     THEN decode_restoration_mode(cdef) ELSE cdef

\* a decoder that has parsed no header: AV1_COMMON is zeroed, and the
\* sequence enables CDEF and restoration
QuantInit ==
  /\ RefOff
  /\ PartOff
  /\ TileOff
  /\ LaterOff
  /\ q_pc = "new"
  /\ q_cm = [monochrome |-> 0, num_planes |-> 3, base_qindex |-> 0,
             y_dc_delta_q |-> 0, u_dc_delta_q |-> 0, u_ac_delta_q |-> 0,
             v_dc_delta_q |-> 0, v_ac_delta_q |-> 0,
             seg |-> ZeroSeg, cur_frame_seg |-> ZeroSeg.alt_q,
             prev_frame |-> NullFrame, primary_ref_frame |-> PRIMARY_REF_NONE,
             seg_bits |-> {}, seg_from |-> {}, filter_bits |-> {},
             coded_lossless |-> 0, all_lossless |-> 0,
             filter_level |-> <<0, 0>>, cdef_bits |-> 0,
             cdef_strengths |-> 0, cdef_uv_strengths |-> 0,
             frame_restoration_type |-> NoRestoration,
             tx_mode |-> "ONLY_4X4", superres_scaled |-> 0,
             allow_intrabc |-> 0, skip_loop_filter |-> 0,
             enable_cdef |-> 1, enable_restoration |-> 1,
             tile_rows |-> 1, tile_cols |-> 1]
  /\ q_xd = [lossless |-> [i \in Segments |-> FALSE],
             qindex |-> [i \in Segments |-> 0]]
  /\ q_hdr = <<>>
  /\ q_tx = {}
  /\ q_stages = <<>>

\* the sequence header's monochrome bit and the quantiser, segmentation,
\* lossless, filter and transform-mode part of read_uncompressed_header
ReadQuantHeader(h) ==
  /\ q_pc \in {"new", "done"}
  /\ UNCHANGED notQuant
  /\ h.primary_ref_frame # PRIMARY_REF_NONE => q_pc = "done"
  /\ LET seq == [q_cm EXCEPT !.monochrome = h.monochrome,
                             !.num_planes = IF h.monochrome = 1 THEN 1 ELSE 3,
                             !.superres_scaled = h.superres_scaled,
                             !.primary_ref_frame = h.primary_ref_frame,
                             !.prev_frame =
                                IF h.primary_ref_frame = PRIMARY_REF_NONE
                                THEN NullFrame
                                ELSE [present |-> 1,
                                      seg |-> q_cm.cur_frame_seg],
                             !.allow_intrabc = h.allow_intrabc,
                             !.filter_bits = {}]
         quant == setup_segmentation(
                    setup_quantization(NoFilterForIbc(seq), h), h)
         filters == SetupFilters(SetLossless(quant))
     IN /\ q_cm' = [filters EXCEPT !.tx_mode = read_tx_mode(filters, h)]
        /\ q_xd' = [lossless |-> SegmentLossless(quant),
                    qindex |-> SegmentQIndex(quant)]
  /\ q_hdr' = h
  /\ q_tx' = {}
  /\ q_stages' = <<>>
  /\ q_pc' = "blocks"

block_signals_txsize(bsize) == bsize # BLOCK_4X4

get_max_rect_tx_size(bsize) ==
  IF bsize = BLOCK_4X4 THEN "TX_4X4" ELSE "TX_8X8"

tx_size_from_tx_mode(bsize, tx_mode) ==
  IF tx_mode = "ONLY_4X4" THEN "TX_4X4" ELSE get_max_rect_tx_size(bsize)

\* read_selected_tx_size: the coded depth below the largest size
read_selected_tx_size(bsize, depth) ==
  IF depth = 0 THEN get_max_rect_tx_size(bsize) ELSE "TX_4X4"

read_tx_size(c, xd, segment_id, bsize, is_inter, allow_select_inter, depth) ==
  IF xd.lossless[segment_id] THEN "TX_4X4"
  ELSE IF block_signals_txsize(bsize)
  THEN IF (is_inter = 0 \/ allow_select_inter = 1)
          /\ c.tx_mode = "TX_MODE_SELECT"
       THEN read_selected_tx_size(bsize, depth)
       ELSE tx_size_from_tx_mode(bsize, c.tx_mode)
  ELSE get_max_rect_tx_size(bsize)

\* read_tx_size for one block of the frame
ReadTxSize(segment_id, bsize, is_inter, allow_select_inter, depth) ==
  /\ q_pc = "blocks"
  /\ UNCHANGED notQuant
  /\ q_tx' = q_tx \cup {read_tx_size(q_cm, q_xd, segment_id, bsize, is_inter,
                                     allow_select_inter, depth)}
  /\ UNCHANGED <<q_pc, q_cm, q_xd, q_hdr, q_stages>>

\* the in-loop filters of decode_tiles and av1_decode_tg_tiles_and_wrapup
\* for the one tile group of a one-tile frame
FilterFrame ==
  /\ q_pc = "blocks"
  /\ UNCHANGED notQuant
  /\ q_stages' = DeblockStages(q_cm, 0) \o CdefStages(q_cm)
                 \o SuperresStages(q_cm) \o RestorationStages(q_cm)
  /\ q_pc' = "done"
  /\ UNCHANGED <<q_cm, q_xd, q_hdr, q_tx>>

QuantNext ==
  \/ \E h \in QuantHeaders : ReadQuantHeader(h)
  \/ \E segment_id \in Segments, bsize \in {BLOCK_4X4, BLOCK_8X8},
        is_inter \in {0, 1}, allow_select_inter \in {0, 1}, depth \in {0, 1} :
       ReadTxSize(segment_id, bsize, is_inter, allow_select_inter, depth)
  \/ FilterFrame

SpecLossless == QuantInit /\ [][QuantNext]_vars

\* the same decoder over headers with a primary reference or with intra
\* block copy
ParamNext ==
  \/ \E h \in ParamHeaders : ReadQuantHeader(h)
  \/ FilterFrame

SpecParams == QuantInit /\ [][ParamNext]_vars

\* C25: with segmentation enabled the feature data is read from the header
\* when update_data = 1 and copied from the previous frame when
\* update_data = 0, never both; temporal_update is read only when
\* update_map = 1; and without a primary reference update_map = 1,
\* update_data = 1 and temporal_update = 0 hold with no update flag read.
C25_SegmentationUpdate ==
  (q_pc \in {"blocks", "done"} /\ q_cm.seg.enabled = 1) =>
    /\ q_cm.seg.update_data = 1 =>
         /\ q_cm.seg_from = {"read"}
         /\ q_cm.seg.alt_q[MaxSegments - 1] = q_hdr.alt_q
    /\ q_cm.seg.update_data = 0 =>
         /\ q_cm.seg_from = {"copied"}
         /\ "feature_data" \notin q_cm.seg_bits
         /\ q_cm.seg.alt_q = q_cm.prev_frame.seg
    /\ "temporal_update" \in q_cm.seg_bits => q_cm.seg.update_map = 1
    /\ q_cm.primary_ref_frame = PRIMARY_REF_NONE =>
         /\ q_cm.seg.update_map = 1
         /\ q_cm.seg.update_data = 1
         /\ q_cm.seg.temporal_update = 0
         /\ q_cm.seg_bits \cap {"update_map", "temporal_update",
                                "update_data"} = {}

\* a frame with a primary reference has taken a nonzero feature from the
\* frame before it, with update_data = 0 and temporal_update read as 1
C25_Witness ==
  /\ q_pc = "blocks"
  /\ q_cm.seg.enabled = 1
  /\ q_cm.primary_ref_frame # PRIMARY_REF_NONE
  /\ q_cm.seg.update_data = 0
  /\ q_cm.seg.update_map = 1
  /\ q_cm.seg.temporal_update = 1
  /\ q_cm.seg_from = {"copied"}
  /\ q_cm.seg.alt_q[MaxSegments - 1] = 1

\* C26: after the header of a frame with allow_intrabc set both luma
\* filter levels, cdef_bits and the first CDEF strengths are 0, the
\* restoration type of the three planes is RESTORE_NONE, no loop-filter,
\* CDEF or restoration syntax was read, and no in-loop filter stage runs
\* for the frame.
C26_IntrabcNoFilters ==
  (q_pc \in {"blocks", "done"} /\ q_cm.allow_intrabc = 1) =>
    /\ q_cm.filter_level = <<0, 0>>
    /\ q_cm.cdef_bits = 0
    /\ q_cm.cdef_strengths = 0
    /\ q_cm.cdef_uv_strengths = 0
    /\ q_cm.frame_restoration_type = NoRestoration
    /\ q_cm.filter_bits = {}
    /\ q_pc = "done" => q_stages = <<>>

\* a frame with intra block copy that is not coded lossless has been
\* decoded and filtered after a frame whose header had read its filters
C26_Witness ==
  /\ q_pc = "done"
  /\ q_cm.allow_intrabc = 1
  /\ q_cm.coded_lossless = 0
  /\ q_cm.seg_bits = {"enabled"}
  /\ q_cm.cur_frame_seg = ZeroSeg.alt_q
  /\ q_stages = <<>>

\* the stages the claim says a lossless frame skips
LosslessSkipped == {"deblock_y", "deblock_u", "deblock_v", "cdef",
                    "restoration"}

\* C7, for a header without segmentation and without super-resolution: when
\* the header carries base_qindex 0 and no nonzero delta_q, coded_lossless is
\* set, tx_mode is ONLY_4X4, every block gets TX_4X4 and neither deblocking
\* nor CDEF nor restoration runs.
C7_LosslessHeader ==
  (/\ q_pc \in {"blocks", "done"}
   /\ q_hdr.base_qindex = 0
   /\ q_hdr.y_dc_delta_q = 0
   /\ q_hdr.chroma = NoChroma
   /\ q_hdr.seg_enabled = 0
   /\ q_hdr.superres_scaled = 0) =>
     /\ q_cm.coded_lossless = 1
     /\ q_cm.tx_mode = "ONLY_4X4"
     /\ q_tx \subseteq {"TX_4X4"}
     /\ \A i \in 1 .. Len(q_stages) : q_stages[i] \notin LosslessSkipped

\* the variables of the first four sub-systems while a later one runs
FirstOff ==
  /\ RefOff
  /\ PartOff
  /\ TileOff
  /\ QuantOff

\* ------------------------------------------------------------------
\* Superblock rows and the corrupted flag
\* ------------------------------------------------------------------
\* superblock rows of a tile
MaxSbRows == 2
\* decode_block calls of one superblock row
MaxSbBlocks == 2

SbTiles == 0 .. (MaxTiles - 1)

\* aom_merge_corrupted_flag: *corrupted |= new_corrupted
aom_merge_corrupted_flag(corrupted, new_corrupted) == IF corrupted # 0 \/ new_corrupted # 0 THEN 1 ELSE 0

\* decode_block: decode_mbmi_block and decode_token_and_recon_block each
\* merge aom_reader_has_error(r) into xd->corrupted as their last statement
decode_block_corrupted(corrupted, err_mbmi, err_token) == aom_merge_corrupted_flag(aom_merge_corrupted_flag(corrupted, err_mbmi), err_token)

\* a row end that leaves the tile's flag out of pbi->mb.corrupted
decode_tile_sb_row_merge_MbOnly(mb_corrupted, td_corrupted) == mb_corrupted

\* pbi->mb.corrupted after the merge that ends decode_tile_sb_row
decode_tile_sb_row_merge(mb_corrupted, td_corrupted) == aom_merge_corrupted_flag(mb_corrupted, td_corrupted)

\* the tile decode_tiles hands to decode_tile for index i of its second loop
SbDecodedTile(inv_tile_order, i) == IF inv_tile_order # 0 THEN MaxTiles - 1 - i ELSE i

\* the tiles of a call in the order of the second loop of decode_tiles
SbDecodeQueue(inv_tile_order, startTile, endTile) == [k \in 1 .. (endTile - startTile + 1) |-> SbDecodedTile(inv_tile_order, startTile + k - 1)]

\* pbi->tile_data comes from aom_memalign, so a flag no call has
\* initialised holds either value
SbInit ==
  /\ FirstOff
  /\ CtxOff
  /\ LastOff
  /\ sb_pc = "new"
  /\ sb_cm = [inv_tile_order |-> 0, frames |-> 0]
  /\ sb_td \in [SbTiles -> {0, 1}]
  /\ sb_mb = 0
  /\ sb_tg = [startTile |-> 0, endTile |-> 0, queue |-> <<>>]
  /\ sb_pos = [tile |-> 0, row |-> 0, blk |-> 0]
  /\ sb_error = "OK"

\* av1_decode_frame_headers_and_setup of a frame with tiles: it ends with
\* xd->corrupted = 0
SbFrameSetup(inv) ==
  /\ sb_pc \in {"new", "done", "error"}
  /\ sb_cm.frames < MaxFrames
  /\ sb_pc' = "call"
  /\ sb_cm' = [inv_tile_order |-> inv, frames |-> sb_cm.frames + 1]
  /\ sb_mb' = 0
  /\ sb_tg' = [startTile |-> 0, endTile |-> 0, queue |-> <<>>]
  /\ sb_pos' = [tile |-> 0, row |-> 0, blk |-> 0]
  /\ sb_error' = "OK"
  /\ UNCHANGED <<sb_td>>
  /\ UNCHANGED notSb

\* decode_tiles up to its first decode_tile: the first loop initialises the
\* tile data of the indices startTile..endTile
SbInitTileData(endTile) ==
  /\ sb_pc = "call"
  /\ endTile >= sb_tg.startTile
  /\ LET q == SbDecodeQueue(sb_cm.inv_tile_order, sb_tg.startTile, endTile) IN
       /\ sb_td' = [t \in SbTiles |-> IF t >= sb_tg.startTile /\ t <= endTile THEN 0 ELSE sb_td[t]]
       /\ sb_tg' = [sb_tg EXCEPT !.endTile = endTile, !.queue = Tail(q)]
       /\ sb_pos' = [tile |-> Head(q), row |-> 0, blk |-> 0]
  /\ sb_pc' = "block"
  /\ UNCHANGED <<sb_cm, sb_mb, sb_error>>
  /\ UNCHANGED notSb

\* one decode_block of the current superblock row
SbDecodeBlock(err_mbmi, err_token) ==
  /\ sb_pc = "block"
  /\ sb_pos.blk < MaxSbBlocks
  /\ sb_td' = [sb_td EXCEPT ![sb_pos.tile] = decode_block_corrupted(@, err_mbmi, err_token)]
  /\ sb_pos' = [sb_pos EXCEPT !.blk = @ + 1]
  /\ UNCHANGED <<sb_pc, sb_cm, sb_mb, sb_tg, sb_error>>
  /\ UNCHANGED notSb

\* the end of decode_tile_sb_row, and what decode_tile and decode_tiles
\* do next when it returns
SbRowEnd ==
  /\ sb_pc = "block"
  /\ sb_pos.blk = MaxSbBlocks
  /\ LET mb == decode_tile_sb_row_merge(sb_mb, sb_td[sb_pos.tile]) IN
       /\ sb_mb' = mb
       /\ IF mb # 0
            THEN /\ sb_pc' = "error"
                 /\ sb_error' = "CORRUPT_FRAME"
                 /\ UNCHANGED <<sb_tg, sb_pos>>
          ELSE IF sb_pos.row + 1 < MaxSbRows
            THEN /\ sb_pos' = [sb_pos EXCEPT !.row = @ + 1, !.blk = 0]
                 /\ UNCHANGED <<sb_pc, sb_tg, sb_error>>
          ELSE IF sb_tg.queue # <<>>
            THEN /\ sb_pos' = [tile |-> Head(sb_tg.queue), row |-> 0, blk |-> 0]
                 /\ sb_tg' = [sb_tg EXCEPT !.queue = Tail(@)]
                 /\ UNCHANGED <<sb_pc, sb_error>>
          ELSE IF sb_tg.endTile # MaxTiles - 1
            THEN /\ sb_pc' = "call"
                 /\ sb_tg' = [sb_tg EXCEPT !.startTile = sb_tg.endTile + 1]
                 /\ UNCHANGED <<sb_pos, sb_error>>
          ELSE /\ sb_pc' = "wrapup"
               /\ UNCHANGED <<sb_tg, sb_pos, sb_error>>
  /\ UNCHANGED <<sb_cm, sb_td>>
  /\ UNCHANGED notSb

\* the corrupted test of av1_decode_tg_tiles_and_wrapup, after the
\* in-loop filters of the last tile group
SbWrapUp ==
  /\ sb_pc = "wrapup"
  /\ IF sb_mb = 0
       THEN /\ sb_pc' = "done"
            /\ UNCHANGED sb_error
       ELSE /\ sb_pc' = "error"
            /\ sb_error' = "CORRUPT_FRAME"
  /\ UNCHANGED <<sb_cm, sb_td, sb_mb, sb_tg, sb_pos>>
  /\ UNCHANGED notSb

SbNext ==
  \/ \E inv \in {0, 1} : SbFrameSetup(inv)
  \/ \E endTile \in SbTiles : SbInitTileData(endTile)
  \/ \E err_mbmi \in {0, 1}, err_token \in {0, 1} : SbDecodeBlock(err_mbmi, err_token)
  \/ SbRowEnd
  \/ SbWrapUp

SpecSbRows == SbInit /\ [][SbNext]_vars

\* the first loop of decode_tiles clears the flag of tile t in this step
SbReinitialised(t) ==
  /\ sb_pc = "call"
  /\ sb_pc' = "block"
  /\ t >= sb_tg'.startTile
  /\ t <= sb_tg'.endTile

\* C11: a tile's corrupted flag, once set, stays set until the tile's data
\* is initialised again; a tile whose flag is set never starts another
\* superblock row, every error of the tile loop is CORRUPT_FRAME raised at
\* the end of a superblock row, and a frame reaches its successful end only
\* with every flag clear
C11_CorruptedSticky ==
  /\ [][\A t \in SbTiles : (sb_pc # "off" /\ sb_td[t] = 1 /\ ~SbReinitialised(t)) => sb_td'[t] = 1]_vars
  /\ [](sb_pc = "block" /\ sb_pos.blk = 0 => sb_td[sb_pos.tile] = 0 \/ sb_pos.row = 0)
  /\ [](sb_pc = "block" /\ sb_pos.row > 0 => sb_td[sb_pos.tile] = 0 \/ sb_pos.blk > 0)
  /\ [](sb_pc = "error" => sb_error = "CORRUPT_FRAME" /\ sb_pos.blk = MaxSbBlocks /\ sb_td[sb_pos.tile] = 1)
  /\ [](sb_pc \in {"wrapup", "done"} => sb_mb = 0 /\ \A t \in SbTiles : sb_td[t] = 0)

\* a reader error in the first block of the second tile's first row ended
\* the frame at the end of that row
C11_Witness ==
  /\ sb_pc = "error"
  /\ sb_error = "CORRUPT_FRAME"
  /\ sb_cm.inv_tile_order = 0
  /\ sb_pos = [tile |-> MaxTiles - 1, row |-> 0, blk |-> MaxSbBlocks]
  /\ sb_td[sb_pos.tile] = 1

\* ------------------------------------------------------------------
\* Frame contexts, pixels and output across frames
\* ------------------------------------------------------------------
\* frame_contexts has one entry for every frame buffer and one more, the
\* last, for the default context
FRAME_CONTEXT_DEFAULTS == NumFrameBufs

\* the contents of a FRAME_CONTEXT: never written, the defaults, or the
\* context frame n adapted
UninitContext == [kind |-> "uninit", frame |-> 0]
DefaultContext == [kind |-> "default", frame |-> 0]
AdaptedContext(n) == [kind |-> "adapted", frame |-> n]

\* the pixels of a buffer: 0 before any write, the number of the frame
\* decoded into it, or the grey of set_planes_to_neutral_grey
NeutralGrey == 0 - 1

CtxInitBuf == [ref_count |-> 0, frame_type |-> "KEY_FRAME", showable_frame |-> 0, pixels |-> 0]

\* a header that reads primary_ref_frame whatever the frame is
PrimaryRefFrame_AlwaysRead(error_resilient_mode, intra_only, prim) == prim

\* primary_ref_frame as lines 2653-2661 leave it
PrimaryRefFrame(error_resilient_mode, intra_only, prim) == IF error_resilient_mode = 0 /\ ~intra_only THEN prim ELSE PRIMARY_REF_NONE

\* the buffer show_existing_frame shows
\* a header that shows the buffer of slot 0
FrameToShow_FirstSlot(map, existing_frame_idx) == map[0]

FrameToShow(map, existing_frame_idx) == map[existing_frame_idx]

\* av1_setup_past_independence: the live context and the default entry of
\* frame_contexts take the default values.  st = [fc, frame_contexts]
av1_setup_past_independence(st) == [fc |-> DefaultContext, frame_contexts |-> [st.frame_contexts EXCEPT ![FRAME_CONTEXT_DEFAULTS] = DefaultContext]]

\* the context av1_decode_frame_headers_and_setup loads before the tiles;
\* a header that reads primary_ref_frame has populated references
LoadFrameContext(contexts, primary_ref_frame, idx) == IF primary_ref_frame = PRIMARY_REF_NONE THEN contexts[FRAME_CONTEXT_DEFAULTS] ELSE IF idx \in Bufs THEN contexts[idx] ELSE UninitContext

\* the slots the placeholder loop has filled
PlaceholderSlots(map, map1) == {i \in Slots : map[i] = INVALID_IDX /\ map1[i] # INVALID_IDX}

\* the pool after the placeholder loop: for every slot it fills,
\* set_planes_to_neutral_grey(cm, xd, 0) writes the planes of xd->cur_buf,
\* the buffer of the last header that returned; the placeholder keeps what
\* its memory held
PlaceholderPixels(map, map1, fb, cur_buf) ==
  IF PlaceholderSlots(map, map1) # {} /\ cur_buf \in Bufs
  THEN [fb EXCEPT ![cur_buf].pixels = NeutralGrey]
  ELSE fb

CtxFreshCommon(oh, n) ==
  [show_existing_frame |-> 0, existing_frame_idx |-> 0,
   reset_decoder_state |-> 0, frame_type |-> "KEY_FRAME", show_frame |-> 0,
   error_resilient_mode |-> 0, primary_ref_frame |-> PRIMARY_REF_NONE,
   frame_refs_idx |-> INVALID_IDX, refresh_frame_context |-> "DISABLED",
   new_fb_idx |-> INVALID_IDX, enable_order_hint |-> oh, corrupted |-> 0,
   error_code |-> "OK", frames |-> n]

\* a decoder that has decoded nothing: every slot empty, a resync pending,
\* no context initialised
CtxInit ==
  /\ FirstOff
  /\ SbOff
  /\ LastOff
  /\ ctx_pc = "idle"
  /\ \E oh \in {0, 1} : ctx_cm = CtxFreshCommon(oh, 0)
  /\ ctx_pbi = [refresh_frame_flags |-> 0, hold_ref_buf |-> 0, need_resync |-> 1,
                cur_buf |-> INVALID_IDX]
  /\ ctx_map = AllEmptyMap
  /\ ctx_next_map = AllEmptyMap
  /\ ctx_bufs = [b \in Bufs |-> CtxInitBuf]
  /\ ctx_fc = UninitContext
  /\ ctx_frame_contexts = [i \in 0 .. FRAME_CONTEXT_DEFAULTS |-> UninitContext]
  /\ ctx_out = <<>>

\* a header with show_existing_frame = 1, after the caller took a buffer for
\* the frame: lines 2535-2577, show_existing_frame_reset and lines 3177-3193
CtxShowExisting(existing_frame_idx) ==
  /\ ctx_pc = "idle"
  /\ ctx_cm.frames < MaxFrames
  /\ get_free_fb(ctx_bufs) # INVALID_IDX
  /\ LET b == get_free_fb(ctx_bufs)
         fb0 == TakeFree(ctx_bufs, b)
         frame_to_show == FrameToShow(ctx_map, existing_frame_idx)
         cm0 == [CtxFreshCommon(ctx_cm.enable_order_hint, ctx_cm.frames + 1) EXCEPT
                   !.show_existing_frame = 1,
                   !.existing_frame_idx = existing_frame_idx,
                   !.frame_type = ctx_cm.frame_type,
                   !.refresh_frame_context = ctx_cm.refresh_frame_context,
                   !.new_fb_idx = b]
     IN IF frame_to_show < 0 \/ fb0[frame_to_show].ref_count < 1
        THEN /\ ctx_pc' = "error"
             /\ ctx_cm' = [cm0 EXCEPT !.error_code = "UNSUP_BITSTREAM"]
             /\ ctx_bufs' = fb0
             /\ ctx_pbi' = [ctx_pbi EXCEPT !.hold_ref_buf = 0]
             /\ UNCHANGED <<ctx_map, ctx_next_map, ctx_fc, ctx_frame_contexts>>
        ELSE LET fb1 == ref_cnt_fb(fb0, b, frame_to_show)
                 reset == IF fb1[frame_to_show].frame_type = "KEY_FRAME" THEN 1 ELSE 0
                 cm1 == [cm0 EXCEPT !.new_fb_idx = frame_to_show,
                                    !.reset_decoder_state = reset,
                                    !.show_frame = 1,
                                    !.corrupted = aom_merge_corrupted_flag(ctx_cm.corrupted, 1 - fb1[frame_to_show].showable_frame)]
                 fb2 == [fb1 EXCEPT ![frame_to_show].showable_frame = 0]
             IN IF reset = 0
                THEN /\ ctx_pc' = "shown"
                     /\ ctx_cm' = cm1
                     /\ ctx_bufs' = fb2
                     /\ ctx_pbi' = [ctx_pbi EXCEPT !.refresh_frame_flags = 0, !.hold_ref_buf = 0,
                                                   !.cur_buf = frame_to_show]
                     /\ UNCHANGED <<ctx_map, ctx_next_map, ctx_fc, ctx_frame_contexts>>
                ELSE LET map1 == ResyncMap(ctx_map, ctx_pbi.need_resync)
                         done == GenerateNextRefFrameMap(ctx_next_map, fb2, map1, ALL_REFRESH, frame_to_show)
                         loaded == ctx_frame_contexts[FRAME_CONTEXT_DEFAULTS]
                     IN /\ ctx_map' = map1
                        /\ ctx_next_map' = done.nmap
                        /\ ctx_bufs' = done.fb
                        /\ ctx_pbi' = [refresh_frame_flags |-> ALL_REFRESH, hold_ref_buf |-> 1, need_resync |-> 0,
                                       cur_buf |-> frame_to_show]
                        /\ ctx_fc' = loaded
                        /\ ctx_pc' = IF loaded.kind = "uninit" THEN "error" ELSE "shown"
                        /\ ctx_cm' = [cm1 EXCEPT !.frame_type = "KEY_FRAME",
                                                 !.refresh_frame_context = "DISABLED",
                                                 !.error_code = IF loaded.kind = "uninit" THEN "CORRUPT_FRAME" ELSE "OK"]
                        /\ UNCHANGED ctx_frame_contexts
  /\ UNCHANGED ctx_out
  /\ UNCHANGED notCtx

\* av1_decode_frame_headers_and_setup for a full header of a key or inter
\* frame, after the caller took a buffer for the frame.  An unshown frame
\* of the model is showable, and every reference of an inter frame names
\* slot ref.  The placeholder loop of a decoder whose xd->cur_buf is still
\* NULL dereferences it: the header does not return ("UNDEFINED").
CtxHeader(ft, show, erm, prim, mbits, ref, rfc) ==
  /\ ctx_pc = "idle"
  /\ ctx_cm.frames < MaxFrames
  /\ get_free_fb(ctx_bufs) # INVALID_IDX
  /\ LET b == get_free_fb(ctx_bufs)
         fb0 == [TakeFree(ctx_bufs, b) EXCEPT ![b].showable_frame = 1 - show]
         intra == ft = "KEY_FRAME"
         primary == PrimaryRefFrame(erm, intra, prim)
         st0 == [map |-> ctx_map, fb |-> fb0, neg |-> FALSE]
         st1 == IF ~intra /\ erm = 1 /\ ctx_cm.enable_order_hint = 1
                THEN AllocPlaceholders(st0, 0) ELSE st0
         fb1 == PlaceholderPixels(ctx_map, st1.map, st1.fb, ctx_pbi.cur_buf)
         resync == ctx_pbi.need_resync
         map1 == IF intra THEN ResyncMap(ctx_map, resync) ELSE st1.map
         flags == IF intra THEN (IF show = 1 THEN ALL_REFRESH ELSE mbits)
                  ELSE IF resync = 1 THEN ctx_pbi.refresh_frame_flags ELSE mbits
         idx == IF intra \/ resync = 1 THEN INVALID_IDX ELSE map1[ref]
         early == IF st1.neg THEN "UNDEFINED"
                  ELSE IF PlaceholderSlots(ctx_map, st1.map) # {} /\ ctx_pbi.cur_buf \notin Bufs
                  THEN "UNDEFINED"
                  ELSE IF ~intra /\ resync # 1 /\ idx = INVALID_IDX THEN "CORRUPT_FRAME"
                  ELSE IF ~intra /\ resync = 1 THEN "CORRUPT_FRAME"
                  ELSE "OK"
         cm1 == [CtxFreshCommon(ctx_cm.enable_order_hint, ctx_cm.frames + 1) EXCEPT
                   !.frame_type = ft, !.show_frame = show,
                   !.error_resilient_mode = erm,
                   !.primary_ref_frame = primary,
                   !.frame_refs_idx = idx,
                   !.refresh_frame_context = ctx_cm.refresh_frame_context,
                   !.new_fb_idx = b]
     IN IF early # "OK"
        THEN /\ ctx_pc' = "error"
             /\ ctx_cm' = [cm1 EXCEPT !.error_code = early]
             /\ ctx_pbi' = [ctx_pbi EXCEPT !.hold_ref_buf = 0, !.refresh_frame_flags = flags]
             /\ ctx_map' = map1
             /\ ctx_bufs' = fb1
             /\ UNCHANGED <<ctx_next_map, ctx_fc, ctx_frame_contexts>>
        ELSE LET fb2 == [fb1 EXCEPT ![b].frame_type = ft]
                 done == GenerateNextRefFrameMap(ctx_next_map, fb2, map1, flags, b)
                 c0 == [fc |-> ctx_fc, frame_contexts |-> ctx_frame_contexts]
                 c1 == IF primary = PRIMARY_REF_NONE
                       THEN av1_setup_past_independence(c0) ELSE c0
                 loaded == LoadFrameContext(c1.frame_contexts, primary, idx)
             IN /\ ctx_map' = map1
                /\ ctx_next_map' = done.nmap
                /\ ctx_bufs' = done.fb
                /\ ctx_pbi' = [refresh_frame_flags |-> flags, hold_ref_buf |-> 1, need_resync |-> IF intra THEN 0 ELSE resync,
                               cur_buf |-> b]
                /\ ctx_fc' = loaded
                /\ ctx_frame_contexts' = c1.frame_contexts
                /\ ctx_pc' = IF loaded.kind = "uninit" THEN "error" ELSE "setup"
                /\ ctx_cm' = [cm1 EXCEPT !.refresh_frame_context = rfc,
                                         !.error_code = IF loaded.kind = "uninit" THEN "CORRUPT_FRAME" ELSE "OK"]
  /\ UNCHANGED ctx_out
  /\ UNCHANGED notCtx

\* av1_decode_tg_tiles_and_wrapup for the tiles of the frame: the pixels
\* of the new buffer are written, and a frame that is not corrupted adapts
\* and saves its context
CtxDecodeTiles(outcome) ==
  /\ ctx_pc = "setup"
  /\ ctx_bufs' = [ctx_bufs EXCEPT ![ctx_cm.new_fb_idx].pixels = ctx_cm.frames]
  /\ IF outcome = "corrupt"
       THEN /\ ctx_pc' = "error"
            /\ ctx_cm' = [ctx_cm EXCEPT !.error_code = "CORRUPT_FRAME", !.corrupted = 1]
            /\ UNCHANGED <<ctx_fc, ctx_frame_contexts>>
       ELSE LET adapted == IF ctx_cm.refresh_frame_context = "BACKWARD"
                           THEN AdaptedContext(ctx_cm.frames) ELSE ctx_fc
            IN /\ ctx_pc' = "decoded"
               /\ ctx_fc' = adapted
               /\ ctx_frame_contexts' = [ctx_frame_contexts EXCEPT ![ctx_cm.new_fb_idx] = adapted]
               /\ UNCHANGED ctx_cm
  /\ UNCHANGED <<ctx_pbi, ctx_map, ctx_next_map, ctx_out>>
  /\ UNCHANGED notCtx

\* the decoder after the frame: the next table becomes the reference
\* table, the holds of the frame are dropped and a shown frame is output
CtxSwapFrameBuffers ==
  /\ ctx_pc \in {"decoded", "shown"}
  /\ LET st == IF ctx_pbi.hold_ref_buf = 1
               THEN ReleaseSlots([map |-> ctx_map, fb |-> ctx_bufs], ctx_next_map, ctx_pbi.refresh_frame_flags, TRUE, 0)
               ELSE [map |-> ctx_map, fb |-> ctx_bufs]
     IN /\ ctx_map' = st.map
        /\ ctx_bufs' = DecRef(st.fb, ctx_cm.new_fb_idx)
  /\ ctx_out' = IF ctx_cm.show_frame = 1
                THEN Append(ctx_out, [frame |-> ctx_cm.frames,
                                      frame_type |-> ctx_cm.frame_type,
                                      show_existing_frame |-> ctx_cm.show_existing_frame,
                                      pixels |-> ctx_bufs[ctx_cm.new_fb_idx].pixels])
                ELSE ctx_out
  /\ ctx_pbi' = [ctx_pbi EXCEPT !.hold_ref_buf = 0]
  /\ ctx_pc' = "idle"
  /\ UNCHANGED <<ctx_cm, ctx_next_map, ctx_fc, ctx_frame_contexts>>
  /\ UNCHANGED notCtx

\* the decoder after a failed frame: the holds of the frame are dropped
CtxErrorCleanup ==
  /\ ctx_pc = "error"
  /\ LET st == IF ctx_pbi.hold_ref_buf = 1
               THEN ReleaseSlots([map |-> ctx_map, fb |-> ctx_bufs], ctx_next_map, ctx_pbi.refresh_frame_flags, FALSE, 0)
               ELSE [map |-> ctx_map, fb |-> ctx_bufs]
     IN ctx_bufs' = DecRef(st.fb, ctx_cm.new_fb_idx)
  /\ ctx_pbi' = [ctx_pbi EXCEPT !.hold_ref_buf = 0]
  /\ ctx_pc' = "idle"
  /\ UNCHANGED <<ctx_cm, ctx_map, ctx_next_map, ctx_fc, ctx_frame_contexts, ctx_out>>
  /\ UNCHANGED notCtx

\* the headers of the model; prim is the value the primary_ref_frame bits
\* would have, whether the header reads them or not
CtxHeaderInputs ==
  {h \in [ft : {"KEY_FRAME", "INTER_FRAME"}, show : {0, 1}, erm : {0, 1},
          prim : {0, PRIMARY_REF_NONE}, mbits : {0, 1}, ref : RefBases,
          rfc : {"DISABLED", "BACKWARD"}] :
     /\ h.ft = "KEY_FRAME" => (h.ref = 0 /\ h.prim = PRIMARY_REF_NONE)
     /\ (h.ft = "KEY_FRAME" /\ h.show = 1) => h.mbits = 0}

CtxNext ==
  \/ \E existing_frame_idx \in RefBases : CtxShowExisting(existing_frame_idx)
  \/ \E h \in CtxHeaderInputs : CtxHeader(h.ft, h.show, h.erm, h.prim, h.mbits, h.ref, h.rfc)
  \/ \E outcome \in {"ok", "corrupt"} : CtxDecodeTiles(outcome)
  \/ CtxSwapFrameBuffers
  \/ CtxErrorCleanup

SpecContext == CtxInit /\ [][CtxNext]_vars

CtxPixels(bufs) == [b \in Bufs |-> bufs[b].pixels]

\* C12: show_existing_frame for a populated slot makes new_fb_idx the
\* buffer of that slot and writes no pixel; nothing but the end of the frame
\* follows it, which outputs the pixels of that buffer unchanged; and a
\* shown key frame followed by show_existing_frame gives the same output
\* twice
C12_ShowExisting ==
  /\ [][(ctx_pc = "idle" /\ ctx_pc' = "shown") =>
          /\ ctx_map[ctx_cm'.existing_frame_idx] # INVALID_IDX
          /\ ctx_cm'.new_fb_idx = ctx_map[ctx_cm'.existing_frame_idx]
          /\ CtxPixels(ctx_bufs') = CtxPixels(ctx_bufs)]_vars
  /\ [][ctx_pc = "shown" =>
          /\ ctx_pc' = "idle"
          /\ CtxPixels(ctx_bufs') = CtxPixels(ctx_bufs)
          /\ Len(ctx_out') = Len(ctx_out) + 1
          /\ ctx_out'[Len(ctx_out')].pixels = ctx_bufs[ctx_cm.new_fb_idx].pixels]_vars
  /\ [](ctx_pc # "off" =>
          \A k \in 2 .. Len(ctx_out) :
            (/\ ctx_out[k].show_existing_frame = 1
             /\ ctx_out[k - 1].show_existing_frame = 0
             /\ ctx_out[k - 1].frame_type = "KEY_FRAME"
             /\ ctx_out[k - 1].frame = ctx_out[k].frame - 1)
              => ctx_out[k].pixels = ctx_out[k - 1].pixels)

\* a shown key frame and the show_existing_frame after it have both been
\* output
C12_Witness ==
  /\ ctx_pc = "idle"
  /\ Len(ctx_out) = 2
  /\ ctx_out[1].frame_type = "KEY_FRAME"
  /\ ctx_out[1].show_existing_frame = 0
  /\ ctx_out[2].show_existing_frame = 1
  /\ ctx_out[2].frame = 2
  /\ ctx_out[2].pixels = 1

\* C13: when show_existing_frame has shown a key frame, the live context
\* after the header is the context saved for that key frame's buffer
C13_ResetContext ==
  (ctx_pc = "shown" /\ ctx_cm.reset_decoder_state = 1)
    => ctx_fc = ctx_frame_contexts[ctx_cm.new_fb_idx]

\* the step of a full header with error_resilient_mode = 1
ErrorResilientHeader ==
  /\ ctx_pc = "idle"
  /\ ctx_pc' \in {"setup", "error"}
  /\ ctx_cm'.show_existing_frame = 0
  /\ ctx_cm'.error_resilient_mode = 1

PlaceholderStep ==
  /\ ctx_pc = "idle"
  /\ ctx_pc' \in {"setup", "error"}
  /\ ctx_cm'.show_existing_frame = 0
  /\ PlaceholderSlots(ctx_map, ctx_map') # {}

\* C29: when the header of an error-resilient inter frame allocates
\* placeholders for empty slots, the grey fill writes only into the
\* placeholders: the pixels of every buffer a populated slot already
\* holds, the previously decoded one among them, are what they were
\* before the header
C29_GreyOnlyInPlaceholder ==
  [][PlaceholderStep =>
       \A i \in Slots :
         ctx_map[i] \in Bufs
           => ctx_bufs'[ctx_map[i]].pixels = ctx_bufs[ctx_map[i]].pixels]_vars

\* ------------------------------------------------------------------
\* Global motion parameters of the references
\* ------------------------------------------------------------------
LAST_FRAME == 1
ALTREF_FRAME == 7
GmRefs == LAST_FRAME..ALTREF_FRAME

\* TransformationType
IDENTITY == 0
TRANSLATION == 1
ROTZOOM == 2
AFFINE == 3

\* wmmat[2..5] of a model: "default" is the identity matrix of
\* default_warp_params, the others are what the bit stream coded
WarpMatrices == {"invertible", "singular"}

default_warp_params == [wmtype |-> IDENTITY, wmmat |-> "default", invalid |-> 0]

\* get_shear_params: 0 when the matrix has no valid shear decomposition
get_shear_params(params) == IF params.wmmat = "singular" THEN 0 ELSE 1

\* read_global_motion_params: the type and, from ROTZOOM on, the matrix are
\* read; the shear parameters are derived for every type up to AFFINE
read_global_motion_params(type, coded) ==
  LET params == [wmtype |-> type,
                 wmmat |-> IF type >= ROTZOOM THEN coded ELSE "default",
                 invalid |-> 0]
  IN [params |-> params,
      good |-> IF params.wmtype <= AFFINE THEN get_shear_params(params) ELSE 1]

MarkInvalid_Never(params, good_params) == params

\* read_global_motion: if (!good_params) cm->global_motion[frame].invalid = 1
MarkInvalid(params, good_params) ==
  IF good_params = 0 THEN [params EXCEPT !.invalid = 1] ELSE params

\* the frame types of the headers read
GmFrameTypes == {"KEY_FRAME", "INTRA_ONLY_FRAME", "INTER_FRAME"}

\* the types read: one without a coded matrix, one with (ROTZOOM codes two
\* of the four entries AFFINE codes and is handled as AFFINE is)
GmTypes == {IDENTITY, TRANSLATION, AFFINE}

GmInit ==
  /\ FirstOff
  /\ SbOff
  /\ CtxOff
  /\ CoefOff
  /\ LockOff
  /\ MoreOff
  /\ gm_pc = "idle"
  /\ gm_cm = [frame_type |-> "KEY_FRAME", frame |-> 0, error |-> "OK"]
  /\ gm_global_motion = [f \in GmRefs |-> default_warp_params]
  /\ gm_cur_frame = [f \in GmRefs |-> default_warp_params]

\* av1_decode_frame_headers_and_setup up to read_global_motion, for the first
\* frame or the one after a header that returned or raised: both arrays are
\* reset, the header is read; an earlier syntax error raises, an intra frame
\* skips read_global_motion and the header returns 0
GmHeader(ft, syntax_error) ==
  /\ gm_pc \in {"idle", "done", "error"}
  /\ gm_global_motion' = [f \in GmRefs |-> default_warp_params]
  /\ gm_cur_frame' = [f \in GmRefs |-> default_warp_params]
  /\ IF syntax_error = 1
       THEN /\ gm_pc' = "error"
            /\ gm_cm' = [frame_type |-> ft, frame |-> 0, error |-> "CORRUPT_FRAME"]
       ELSE IF ft \in {"KEY_FRAME", "INTRA_ONLY_FRAME"}
       THEN /\ gm_pc' = "done"
            /\ gm_cm' = [frame_type |-> ft, frame |-> 0, error |-> "OK"]
       ELSE /\ gm_pc' = "refs"
            /\ gm_cm' = [frame_type |-> ft, frame |-> LAST_FRAME, error |-> "OK"]
  /\ UNCHANGED notGm

\* one iteration of the loop of read_global_motion; the last one is followed
\* by the memcpy into cm->cur_frame and the header returns 0
GmReadRef(type, coded) ==
  /\ gm_pc = "refs"
  /\ LET r == read_global_motion_params(type, coded)
         gm == [gm_global_motion EXCEPT ![gm_cm.frame] = MarkInvalid(r.params, r.good)]
     IN /\ gm_global_motion' = gm
        /\ IF gm_cm.frame = ALTREF_FRAME
             THEN /\ gm_cur_frame' = gm
                  /\ gm_pc' = "done"
                  /\ gm_cm' = gm_cm
             ELSE /\ gm_cur_frame' = gm_cur_frame
                  /\ gm_pc' = "refs"
                  /\ gm_cm' = [gm_cm EXCEPT !.frame = gm_cm.frame + 1]
  /\ UNCHANGED notGm

GmNext ==
  \/ \E ft \in GmFrameTypes, syntax_error \in {0, 1} : GmHeader(ft, syntax_error)
  \/ \E type \in GmTypes, coded \in WarpMatrices : GmReadRef(type, coded)

SpecGm == GmInit /\ [][GmNext]_vars

\* the header of an inter frame has read read_global_motion to its end
GmRead == gm_pc = "done" /\ gm_cm.frame = ALTREF_FRAME

MaxCoefs == 3
MaxUnits == 3

\* the positions of a transform unit in pd->dqcoeff
Positions == 0..(MaxCoefs - 1)

\* a scan order visits every position once
Scans == {sc \in [Positions -> Positions] : \A a, b \in Positions : sc[a] = sc[b] => a = b}

\* the levels decoded along the scan, signed
CoefLevels == [Positions -> {0 - 1, 0, 1}]

ZeroCoefs == [p \in Positions |-> 0]

\* the end of block: one past the last non-zero level of the scan
EndOfBlock(levels) ==
  IF \A c \in Positions : levels[c] = 0 THEN 0
  ELSE 1 + CHOOSE c \in Positions : levels[c] # 0 /\ \A d \in Positions : d > c => levels[d] = 0

\* av1_read_coeffs_txb_facade: the non-zero levels are dequantised into the
\* positions the scan gives them; max_scan_line is the largest position
\* written, 0 when nothing is
av1_read_coeffs_txb_facade(dqcoeff, scan, levels) ==
  LET written == {scan[c] : c \in {d \in Positions : levels[d] # 0}}
      at(p) == CHOOSE c \in Positions : scan[c] = p
  IN [dqcoeff |-> [p \in Positions |-> IF p \in written THEN levels[at(p)] ELSE dqcoeff[p]],
      eob |-> EndOfBlock(levels),
      max_scan_line |-> IF written = {} THEN 0
                        ELSE CHOOSE p \in written : \A q \in written : q <= p]

inverse_transform_block_ScanLine(dqcoeff, scan_line) ==
  [p \in Positions |-> IF p < scan_line THEN 0 ELSE dqcoeff[p]]

\* inverse_transform_block: av1_inverse_transform_block reads dqcoeff and
\* adds the residual to dst; memset(dqcoeff, 0, (scan_line + 1) * sizeof)
inverse_transform_block(dqcoeff, scan_line) ==
  [p \in Positions |-> IF p < scan_line + 1 THEN 0 ELSE dqcoeff[p]]

\* decode_tiles: av1_zero(td->dqcoeff) when the tile's data is set up
CoefInit ==
  /\ FirstOff
  /\ SbOff
  /\ CtxOff
  /\ GmOff
  /\ LockOff
  /\ MoreOff
  /\ coef_pc = "read"
  /\ coef_dqcoeff = ZeroCoefs
  /\ coef_unit = [path |-> "none", skip |-> 0, eob |-> 0, max_scan_line |-> 0]
  /\ coef_count = 0

\* predict_and_reconstruct_intra_block up to the test of eob: nothing is read
\* for a skipped block
CoefReadIntra(skip, scan, levels) ==
  /\ coef_pc = "read"
  /\ coef_count < MaxUnits
  /\ IF skip = 1
       THEN /\ coef_dqcoeff' = coef_dqcoeff
            /\ coef_unit' = [path |-> "intra", skip |-> 1, eob |-> 0, max_scan_line |-> 0]
            /\ coef_pc' = "read"
            /\ coef_count' = coef_count + 1
       ELSE LET r == av1_read_coeffs_txb_facade(coef_dqcoeff, scan, levels)
            IN /\ coef_dqcoeff' = r.dqcoeff
               /\ coef_unit' = [path |-> "intra", skip |-> 0, eob |-> r.eob,
                                max_scan_line |-> r.max_scan_line]
               /\ coef_pc' = "recon"
               /\ coef_count' = coef_count
  /\ UNCHANGED notCoef

\* decode_reconstruct_tx up to inverse_transform_block, for a transform unit
\* of a block that is not skipped
CoefReadInter(scan, levels) ==
  /\ coef_pc = "read"
  /\ coef_count < MaxUnits
  /\ LET r == av1_read_coeffs_txb_facade(coef_dqcoeff, scan, levels)
     IN /\ coef_dqcoeff' = r.dqcoeff
        /\ coef_unit' = [path |-> "inter", skip |-> 0, eob |-> r.eob,
                         max_scan_line |-> r.max_scan_line]
  /\ coef_pc' = "recon"
  /\ coef_count' = coef_count
  /\ UNCHANGED notCoef

\* the rest of the unit: the intra path calls inverse_transform_block only
\* if (eob), the inter path always
CoefReconstruct ==
  /\ coef_pc = "recon"
  /\ coef_dqcoeff' = IF coef_unit.path = "intra" /\ coef_unit.eob = 0
                       THEN coef_dqcoeff
                       ELSE inverse_transform_block(coef_dqcoeff, coef_unit.max_scan_line)
  /\ coef_pc' = "read"
  /\ coef_count' = coef_count + 1
  /\ UNCHANGED coef_unit
  /\ UNCHANGED notCoef

\* decode_tiles sets up the data of the next tile
CoefNextTile ==
  /\ coef_pc = "read"
  /\ coef_count = MaxUnits
  /\ coef_dqcoeff' = ZeroCoefs
  /\ coef_count' = 0
  /\ UNCHANGED <<coef_pc, coef_unit>>
  /\ UNCHANGED notCoef

CoefNext ==
  \/ \E skip \in {0, 1}, scan \in Scans, levels \in CoefLevels : CoefReadIntra(skip, scan, levels)
  \/ \E scan \in Scans, levels \in CoefLevels : CoefReadInter(scan, levels)
  \/ CoefReconstruct
  \/ CoefNextTile

SpecCoef == CoefInit /\ [][CoefNext]_vars

\* C15: when the coefficients of a transform unit are about to be read, on
\* the intra and on the inter path and whatever the end of block of the
\* units before it, every position of the plane's dqcoeff buffer is zero
C15_ZeroedAfterUse ==
  coef_pc = "read" => \A p \in Positions : coef_dqcoeff[p] = 0

C15_Witness ==
  /\ coef_pc = "read"
  /\ coef_count = 2
  /\ coef_unit.path = "intra"
  /\ coef_unit.eob = 1
  /\ coef_unit.max_scan_line = MaxCoefs - 1

\* ------------------------------------------------------------------
\* The lock of the buffer pool
\* ------------------------------------------------------------------
MaxLockFrames == 2

\* lock_buffer_pool, unlock_buffer_pool
lock_buffer_pool(pool) == [pool EXCEPT !.held = 1]
unlock_buffer_pool(pool) == [pool EXCEPT !.held = 0]

LockFreshCommon(n) ==
  [show_existing_frame |-> 0, with_refs |-> 0, superres_scaled |-> 0,
   reset_decoder_state |-> 0, hold_ref_buf |-> 0, frames |-> n]

LockInit ==
  /\ FirstOff
  /\ SbOff
  /\ CtxOff
  /\ GmOff
  /\ CoefOff
  /\ MoreOff
  /\ lock_pc = "idle"
  /\ lock_pool = [held |-> 0]
  /\ lock_cm = LockFreshCommon(0)
  /\ lock_error = "OK"

\* read_uncompressed_header up to the first lock: show_existing_frame goes
\* to the lock of line 2549, a frame to decode reads its size (explicit, or
\* from a reference for an inter frame) with the super-resolution scale; a
\* syntax error raises before any lock is taken
LockHeader(show_existing_frame, with_refs, scaled, syntax_error) ==
  /\ lock_pc = "idle"
  /\ lock_pool.held = 0
  /\ lock_cm' = [lock_cm EXCEPT !.show_existing_frame = show_existing_frame,
                                !.with_refs = with_refs,
                                !.superres_scaled = scaled,
                                !.reset_decoder_state = 0]
  /\ IF syntax_error = 1
       THEN /\ lock_pc' = "error"
            /\ lock_error' = "CORRUPT_FRAME"
            /\ lock_pool' = lock_pool
       ELSE IF show_existing_frame = 1
       THEN /\ lock_pc' = "show_lock"
            /\ lock_error' = lock_error
            /\ lock_pool' = lock_buffer_pool(lock_pool)
       ELSE /\ lock_pc' = "size_lock"
            /\ lock_error' = lock_error
            /\ lock_pool' = lock_buffer_pool(lock_pool)
  /\ UNCHANGED notLock

\* show_existing_frame under the lock: an empty slot unlocks and raises;
\* otherwise ref_cnt_fb moves new_fb_idx, the lock is released, and for a key
\* frame show_existing_frame_reset takes the lock again for the map
LockShowExisting(shown_ok, key_frame) ==
  /\ lock_pc = "show_lock"
  /\ IF shown_ok = 0
       THEN /\ lock_pool' = unlock_buffer_pool(lock_pool)
            /\ lock_pc' = "error"
            /\ lock_error' = "UNSUP_BITSTREAM"
            /\ lock_cm' = lock_cm
       ELSE IF key_frame = 1
       THEN /\ lock_pool' = lock_buffer_pool(unlock_buffer_pool(lock_pool))
            /\ lock_pc' = "reset_lock"
            /\ lock_error' = lock_error
            /\ lock_cm' = [lock_cm EXCEPT !.reset_decoder_state = 1]
       ELSE /\ lock_pool' = unlock_buffer_pool(lock_pool)
            /\ lock_pc' = "frame_done"
            /\ lock_error' = lock_error
            /\ lock_cm' = lock_cm
  /\ UNCHANGED notLock

\* show_existing_frame_reset: next_ref_frame_map is generated under the lock
LockResetMap ==
  /\ lock_pc = "reset_lock"
  /\ lock_pool' = unlock_buffer_pool(lock_pool)
  /\ lock_cm' = [lock_cm EXCEPT !.hold_ref_buf = 1]
  /\ lock_pc' = "frame_done"
  /\ UNCHANGED lock_error
  /\ UNCHANGED notLock

\* setup_frame_size and setup_frame_size_with_refs under the lock:
\* aom_realloc_frame_buffer; a failure unlocks and raises; after the unlock
\* the header goes on to the lock of the refresh-mask commit
LockReallocFrameBuffer(alloc_failed, syntax_error) ==
  /\ lock_pc = "size_lock"
  /\ IF alloc_failed = 1
       THEN /\ lock_pool' = unlock_buffer_pool(lock_pool)
            /\ lock_pc' = "error"
            /\ lock_error' = "MEM_ERROR"
       ELSE IF syntax_error = 1
       THEN /\ lock_pool' = unlock_buffer_pool(lock_pool)
            /\ lock_pc' = "error"
            /\ lock_error' = "CORRUPT_FRAME"
       ELSE /\ lock_pool' = lock_buffer_pool(unlock_buffer_pool(lock_pool))
            /\ lock_pc' = "commit_lock"
            /\ lock_error' = lock_error
  /\ UNCHANGED lock_cm
  /\ UNCHANGED notLock

\* read_uncompressed_header: next_ref_frame_map is generated under the lock,
\* and the rest of the header is read without it
LockCommit(syntax_error) ==
  /\ lock_pc = "commit_lock"
  /\ lock_pool' = unlock_buffer_pool(lock_pool)
  /\ lock_cm' = [lock_cm EXCEPT !.hold_ref_buf = 1]
  /\ IF syntax_error = 1
       THEN lock_pc' = "error" /\ lock_error' = "CORRUPT_FRAME"
       ELSE lock_pc' = "tiles" /\ lock_error' = lock_error
  /\ UNCHANGED notLock

\* av1_decode_tg_tiles_and_wrapup: decode_tiles, the loop filter and CDEF;
\* an error of a tile raises; superres_post_decode returns at once for an
\* unscaled frame and takes the lock for av1_superres_upscale otherwise
LockDecodeTiles(tile_error) ==
  /\ lock_pc = "tiles"
  /\ IF tile_error = 1
       THEN /\ lock_pc' = "error"
            /\ lock_error' = "CORRUPT_FRAME"
            /\ lock_pool' = lock_pool
       ELSE IF lock_cm.superres_scaled = 0
       THEN /\ lock_pc' = "frame_done"
            /\ lock_error' = lock_error
            /\ lock_pool' = lock_pool
       ELSE /\ lock_pc' = "upscale"
            /\ lock_error' = lock_error
            /\ lock_pool' = lock_buffer_pool(lock_pool)
  /\ UNCHANGED lock_cm
  /\ UNCHANGED notLock

\* superres_post_decode: av1_superres_upscale has upscaled the frame; the
\* lock is released and loop restoration follows
LockSuperresUpscale ==
  /\ lock_pc = "upscale"
  /\ lock_pool' = unlock_buffer_pool(lock_pool)
  /\ lock_pc' = "frame_done"
  /\ UNCHANGED <<lock_cm, lock_error>>
  /\ UNCHANGED notLock

\* the next frame, after a frame or an error
LockNextFrame ==
  /\ lock_pc \in {"frame_done", "error"}
  /\ lock_cm.frames < MaxLockFrames
  /\ lock_pc' = "idle"
  /\ lock_cm' = [lock_cm EXCEPT !.frames = lock_cm.frames + 1]
  /\ lock_error' = "OK"
  /\ UNCHANGED lock_pool
  /\ UNCHANGED notLock

LockNext ==
  \/ \E se, wr, sc, err \in {0, 1} : LockHeader(se, wr, sc, err)
  \/ \E shown_ok, key_frame \in {0, 1} : LockShowExisting(shown_ok, key_frame)
  \/ LockResetMap
  \/ \E alloc_failed, err \in {0, 1} : LockReallocFrameBuffer(alloc_failed, err)
  \/ \E err \in {0, 1} : LockCommit(err)
  \/ \E tile_error \in {0, 1} : LockDecodeTiles(tile_error)
  \/ LockSuperresUpscale
  \/ LockNextFrame

SpecLock == LockInit /\ [][LockNext]_vars

\* the positions at which the pool is being changed: the frame buffer is
\* (re)allocated, the shown reference is moved, the map is generated
PoolMutation == {"size_lock", "show_lock", "reset_lock", "commit_lock"}

\* C16: the lock of the buffer pool is held only while the pool is changed
\* and never while pixels are processed; it is not held when an error
\* unwinds, while the tiles are decoded or between frames
C16_LockDiscipline ==
  /\ lock_pool.held = 1 => lock_pc \in PoolMutation
  /\ lock_pc \in {"idle", "tiles", "frame_done", "error"} => lock_pool.held = 0

\* ------------------------------------------------------------------
\* Frame ids (frame_id_numbers_present_flag = 1)
\* ------------------------------------------------------------------
\* headers parsed in one behaviour
MaxFidFrames == 2
\* seq_params.frame_id_length and seq_params.delta_frame_id_length of the
\* sequence of the model
FrameIdLength == 3
DeltaFrameIdLength == 2

FrameIds == 0 .. ((2 ^ FrameIdLength) - 1)

\* the refresh masks a header of the model reads
FidMasks == {0, 1, 6}

FidFrames ==
  {<<"KEY_FRAME", 1>>, <<"KEY_FRAME", 0>>, <<"INTER_FRAME", 1>>,
   <<"INTER_FRAME", 0>>}

\* the distance taken without the wrap of the id
diff_frame_id_NoWrap(current_frame_id, prev_frame_id, frame_id_length) ==
  IF current_frame_id > prev_frame_id
  THEN current_frame_id - prev_frame_id
  ELSE prev_frame_id - current_frame_id

diff_frame_id(current_frame_id, prev_frame_id, frame_id_length) ==
  IF current_frame_id > prev_frame_id
  THEN current_frame_id - prev_frame_id
  ELSE (2 ^ frame_id_length) + current_frame_id - prev_frame_id

\* the conformance check of current_frame_id
InvalidFrameId(current_frame_id, prev_frame_id, frame_id_length) ==
  \/ prev_frame_id = current_frame_id
  \/ diff_frame_id(current_frame_id, prev_frame_id, frame_id_length)
       >= 2 ^ (frame_id_length - 1)

\* the sweep that marks frames as not valid for referencing
SweepValid(valid, ref_frame_id, current_frame_id, key_shown) ==
  [i \in Slots |->
     IF key_shown THEN 0
     ELSE IF current_frame_id - (2 ^ DeltaFrameIdLength) > 0
     THEN (IF \/ ref_frame_id[i] > current_frame_id
              \/ ref_frame_id[i] < current_frame_id - (2 ^ DeltaFrameIdLength)
           THEN 0 ELSE valid[i])
     ELSE (IF /\ ref_frame_id[i] > current_frame_id
              /\ ref_frame_id[i] < (2 ^ FrameIdLength) + current_frame_id
                                     - (2 ^ DeltaFrameIdLength)
           THEN 0 ELSE valid[i])]

\* the slots of the refresh mask take the id of the frame and become valid
RefreshFrameIds(ids, refresh_frame_flags, current_frame_id) ==
  [i \in Slots |->
     IF Bit(refresh_frame_flags, i) = 1 THEN current_frame_id ELSE ids[i]]

RefreshValid(valid, refresh_frame_flags) ==
  [i \in Slots |-> IF Bit(refresh_frame_flags, i) = 1 THEN 1 ELSE valid[i]]

FidInit ==
  /\ FirstOff
  /\ SecondOff
  /\ VtxOff
  /\ fid_pc = "idle"
  /\ fid_cm = [frame_type |-> "KEY_FRAME", show_frame |-> 0,
               current_frame_id |-> 0, prev_frame_id |-> 0,
               refresh_frame_flags |-> 0, error_code |-> "OK",
               error_site |-> "none"]
  /\ fid_ref_frame_id = [i \in Slots |-> 0]
  /\ fid_valid = [i \in Slots |-> 0]
  /\ fid_count = 0

\* the frame-id part of read_uncompressed_header for one frame: the id is
\* read and checked, the slots are swept, and a header that gets as far as
\* the refresh of the ids applies its mask.  later_error stands for an
\* error the header raises between the sweep and the refresh.
FidHeader(frame, id, mask, later_error) ==
  /\ fid_pc \in {"idle", "parsed", "error"}
  /\ UNCHANGED notFid
  /\ fid_count < MaxFidFrames
  /\ LET key_shown == frame[1] = "KEY_FRAME" /\ frame[2] = 1
         prev_frame_id == IF key_shown THEN 0 ELSE fid_cm.current_frame_id
         rejected == /\ ~key_shown
                     /\ InvalidFrameId(id, prev_frame_id, FrameIdLength)
         refresh_frame_flags == IF key_shown THEN ALL_REFRESH ELSE mask
         swept == SweepValid(fid_valid, fid_ref_frame_id, id, key_shown)
     IN /\ key_shown => mask = 0
        /\ rejected => ~later_error
        /\ fid_cm' = [frame_type |-> frame[1], show_frame |-> frame[2],
                      current_frame_id |-> id,
                      prev_frame_id |-> prev_frame_id,
                      refresh_frame_flags |-> refresh_frame_flags,
                      error_code |-> IF rejected \/ later_error
                                     THEN "CORRUPT_FRAME" ELSE "OK",
                      error_site |-> IF rejected THEN "frame_id"
                                     ELSE IF later_error THEN "later"
                                     ELSE "none"]
        /\ fid_pc' = IF rejected \/ later_error THEN "error" ELSE "parsed"
        /\ fid_valid' = IF rejected THEN fid_valid
                        ELSE IF later_error THEN swept
                        ELSE RefreshValid(swept, refresh_frame_flags)
        /\ fid_ref_frame_id' =
             IF rejected \/ later_error THEN fid_ref_frame_id
             ELSE RefreshFrameIds(fid_ref_frame_id, refresh_frame_flags, id)
  /\ fid_count' = fid_count + 1

FidNext ==
  \E frame \in FidFrames, id \in FrameIds, mask \in FidMasks, later_error \in BOOLEAN :
    FidHeader(frame, id, mask, later_error)

SpecFid == FidInit /\ [][FidNext]_vars

\* C21: with frame ids signalled, the header of a frame that is not a shown
\* key frame is rejected by the frame-id check, with CORRUPT_FRAME, exactly
\* when the id equals the previous one or the forward distance
\* (current - previous) mod 2^frame_id_length is at least
\* 2^(frame_id_length - 1); a shown key frame is never rejected by the
\* check, leaves every slot invalid when its header fails later, and
\* otherwise leaves every slot valid with its own id.
C21_FrameIdCheck ==
  [][(fid_pc # "off" /\ fid_count' = fid_count + 1) =>
       LET prev == fid_cm.current_frame_id
           cur == fid_cm'.current_frame_id
       IN IF fid_cm'.frame_type = "KEY_FRAME" /\ fid_cm'.show_frame = 1
          THEN /\ fid_cm'.error_site # "frame_id"
               /\ fid_cm'.error_site = "later"
                    => \A i \in Slots : fid_valid'[i] = 0
               /\ fid_cm'.error_site = "none"
                    => \A i \in Slots : /\ fid_valid'[i] = 1
                                        /\ fid_ref_frame_id'[i] = cur
          ELSE (fid_cm'.error_site = "frame_id"
                  /\ fid_cm'.error_code = "CORRUPT_FRAME")
                 <=> \/ cur = prev
                     \/ ((cur - prev) % (2 ^ FrameIdLength))
                          >= 2 ^ (FrameIdLength - 1)]_vars

\* an inter frame whose id wrapped past the largest id has been accepted
\* after a shown key frame had made every slot valid
C21_Witness ==
  /\ fid_pc = "parsed"
  /\ fid_cm.frame_type = "INTER_FRAME"
  /\ fid_cm.current_frame_id < fid_cm.prev_frame_id
  /\ fid_count >= 2
  /\ \E i \in Slots : fid_valid[i] = 1 /\ fid_ref_frame_id[i] = fid_cm.prev_frame_id

\* ------------------------------------------------------------------
\* Variable transform sizes of an inter block (read_tx_size_vartx)
\* ------------------------------------------------------------------
MAX_VARTX_DEPTH == 2

\* the largest block of the model is 2^MaxVtxLog2 units of 4 pixels a side
MaxVtxLog2 == 3

\* A transform size is <<wide, high>> in units of 4 pixels.
TX_4X4 == <<1, 1>>

tx_size_wide_unit(tx_size) == tx_size[1]
tx_size_high_unit(tx_size) == tx_size[2]

\* max_txsize_rect_lookup[bsize]: the transform of the block's shape, no
\* side longer than 64 pixels (16 units)
max_txsize_rect_lookup(bsize) ==
  <<IF bsize[1] > 16 THEN 16 ELSE bsize[1],
    IF bsize[2] > 16 THEN 16 ELSE bsize[2]>>

\* sub_tx_size_map[1][tx_size]: a square is quartered, a 2:1 rectangle is
\* halved into squares, a 4:1 rectangle is halved along its longer side
sub_tx_size_map(tx_size) ==
  LET w == tx_size[1]
      h == tx_size[2]
  IN IF w = h THEN (IF w = 1 THEN TX_4X4 ELSE <<w \div 2, h \div 2>>)
     ELSE IF w > h THEN <<w \div 2, h>>
     ELSE <<w, h \div 2>>

\* av1_get_txb_size_index: inter_tx_size has one entry per transform of
\* the size one split below the largest of the block
av1_get_txb_size_index(bsize, blk_row, blk_col) ==
  LET txs == sub_tx_size_map(max_txsize_rect_lookup(bsize))
      stride == bsize[1] \div tx_size_wide_unit(txs)
  IN (blk_row \div tx_size_high_unit(txs)) * stride
       + (blk_col \div tx_size_wide_unit(txs))

\* the inter_tx_size entries of the units of a transform block
TxbIndices(bsize, tx_size, blk_row, blk_col) ==
  {av1_get_txb_size_index(bsize, blk_row + idy, blk_col + idx) :
     idy \in 0 .. (tx_size_high_unit(tx_size) - 1),
     idx \in 0 .. (tx_size_wide_unit(tx_size) - 1)}

\* mbmi->inter_tx_size[index] = value for every unit of the transform
\* tx_size of the call
SetInterTxSize(writes, bsize, tx_size, value, blk_row, blk_col) ==
  [i \in DOMAIN writes |->
     IF i \in TxbIndices(bsize, tx_size, blk_row, blk_col)
     THEN writes[i] \cup {value} ELSE writes[i]]

\* no node is outside the block
vartx_outside_Never(blk_row, blk_col, max_blocks_high, max_blocks_wide) ==
  FALSE

\* the node starts outside the visible part of the block
vartx_outside(blk_row, blk_col, max_blocks_high, max_blocks_wide) ==
  blk_row >= max_blocks_high \/ blk_col >= max_blocks_wide

VtxCallOf(tx_size, depth, blk_row, blk_col) ==
  [tx_size |-> tx_size, depth |-> depth, blk_row |-> blk_row,
   blk_col |-> blk_col]

\* the calls of two nested loops over rows and columns, in order
RECURSIVE VtxLoop(_, _, _, _, _, _, _)
VtxLoop(tx_size, depth, row0, col0, row, col, limit) ==
  IF row >= limit[2] THEN <<>>
  ELSE IF col >= limit[1]
  THEN VtxLoop(tx_size, depth, row0, col0, row + tx_size[2], 0, limit)
  ELSE <<VtxCallOf(tx_size, depth, row0 + row, col0 + col)>>
       \o VtxLoop(tx_size, depth, row0, col0, row, col + tx_size[1], limit)

\* the sizes of the blocks that signal a transform size: powers of two with
\* sides at most 4:1
VtxBlockSizes ==
  {<<2 ^ a, 2 ^ b>> : a \in 0 .. MaxVtxLog2, b \in 0 .. MaxVtxLog2}
    \ {b \in {<<2 ^ a, 2 ^ c>> : a \in 0 .. MaxVtxLog2, c \in 0 .. MaxVtxLog2} :
         b = TX_4X4 \/ b[1] > 4 * b[2] \/ b[2] > 4 * b[1]}

\* the visible extents of a side of n units: all of it, one unit less, half
VtxExtents(n) == {m \in {n, n - 1, n \div 2} : m >= 1}

NoVtxCall == [tx_size |-> TX_4X4, depth |-> 0, blk_row |-> 0, blk_col |-> 0,
              read |-> 0, is_split |-> 0]

VtxInit ==
  /\ FirstOff
  /\ SecondOff
  /\ FidOff
  /\ vtx_pc = "block"
  /\ \E bsize \in VtxBlockSizes :
       \E max_wide \in VtxExtents(bsize[1]), max_high \in VtxExtents(bsize[2]) :
         vtx_blk = [sb_type |-> bsize, max_blocks_wide |-> max_wide,
                    max_blocks_high |-> max_high]
  /\ vtx_stack = <<>>
  /\ vtx_call = NoVtxCall
  /\ vtx_writes = [i \in 0 .. 15 |-> {}]

\* the loop of decode_block over the largest transforms of the block
VtxDecodeBlock ==
  /\ vtx_pc = "block"
  /\ UNCHANGED notVtx
  /\ LET max_tx_size == max_txsize_rect_lookup(vtx_blk.sb_type)
     IN vtx_stack' = VtxLoop(max_tx_size, 0, 0, 0, 0, 0, vtx_blk.sb_type)
  /\ vtx_pc' = "walk"
  /\ UNCHANGED <<vtx_blk, vtx_call, vtx_writes>>

\* one call of read_tx_size_vartx up to its recursive calls, which are left
\* on the stack; is_split is the symbol the call reads when it reads one
ReadTxSizeVartx(is_split) ==
  /\ vtx_pc = "walk"
  /\ UNCHANGED notVtx
  /\ vtx_stack # <<>>
  /\ LET call == Head(vtx_stack)
         tx_size == call.tx_size
         bsize == vtx_blk.sb_type
         sub_txs == sub_tx_size_map(tx_size)
         assign(txs) == SetInterTxSize(vtx_writes, bsize, tx_size, txs,
                                       call.blk_row, call.blk_col)
         ran(read) == [tx_size |-> tx_size, depth |-> call.depth,
                       blk_row |-> call.blk_row, blk_col |-> call.blk_col,
                       read |-> read, is_split |-> is_split]
         return(stack) ==
           /\ vtx_stack' = stack
           /\ vtx_pc' = IF stack = <<>> THEN "done" ELSE "walk"
     IN IF vartx_outside(call.blk_row, call.blk_col, vtx_blk.max_blocks_high,
                         vtx_blk.max_blocks_wide)
        THEN /\ is_split = 0
             /\ vtx_call' = ran(0)
             /\ UNCHANGED vtx_writes
             /\ return(Tail(vtx_stack))
        ELSE IF call.depth = MAX_VARTX_DEPTH
        THEN /\ is_split = 0
             /\ vtx_call' = ran(0)
             /\ vtx_writes' = assign(tx_size)
             /\ return(Tail(vtx_stack))
        ELSE /\ vtx_call' = ran(1)
             /\ IF is_split = 1
                THEN IF sub_txs = TX_4X4
                     THEN /\ vtx_writes' = assign(sub_txs)
                          /\ return(Tail(vtx_stack))
                     ELSE /\ UNCHANGED vtx_writes
                          /\ return(VtxLoop(sub_txs, call.depth + 1,
                                            call.blk_row, call.blk_col, 0, 0,
                                            tx_size)
                                    \o Tail(vtx_stack))
                ELSE /\ vtx_writes' = assign(tx_size)
                     /\ return(Tail(vtx_stack))
  /\ UNCHANGED vtx_blk

VtxNext ==
  \/ VtxDecodeBlock
  \/ \E is_split \in {0, 1} : ReadTxSizeVartx(is_split)

\* decode_block runs to its end: a call that can run does run
SpecVartx == VtxInit /\ [][VtxNext]_vars /\ WF_vars(VtxNext)

\* the units of the block inside its visible extent
VisibleUnits ==
  (0 .. (vtx_blk.max_blocks_high - 1)) \X (0 .. (vtx_blk.max_blocks_wide - 1))

\* C24: for every block and every sequence of split symbols the recursion
\* terminates, no call is deeper than MAX_VARTX_DEPTH, no split symbol is
\* read at the maximum depth or for a node that starts outside the visible
\* extent, and on return every 4x4 unit inside the visible extent has been
\* assigned exactly one transform size.
C24_Vartx ==
  /\ [](vtx_pc # "off" =>
          /\ \A k \in 1 .. Len(vtx_stack) :
               vtx_stack[k].depth <= MAX_VARTX_DEPTH
          /\ vtx_call.depth <= MAX_VARTX_DEPTH
          /\ vtx_call.read = 1 =>
               /\ vtx_call.depth < MAX_VARTX_DEPTH
               /\ vtx_call.blk_row < vtx_blk.max_blocks_high
               /\ vtx_call.blk_col < vtx_blk.max_blocks_wide
          /\ vtx_pc = "done" =>
               \A u \in VisibleUnits :
                 Cardinality(vtx_writes[av1_get_txb_size_index(
                                          vtx_blk.sb_type, u[1], u[2])]) = 1)
  /\ (vtx_pc = "block" ~> vtx_pc = "done")

\* a block of the largest size with half of its rows visible has returned
\* after a call at the maximum depth and with a call outside the extent
C24_Witness ==
  /\ vtx_pc = "done"
  /\ vtx_blk.sb_type = <<2 ^ MaxVtxLog2, 2 ^ MaxVtxLog2>>
  /\ vtx_blk.max_blocks_high < 2 ^ MaxVtxLog2
  /\ vtx_call.read = 0
  /\ vtx_call.blk_row >= vtx_blk.max_blocks_high
  /\ \E i \in 0 .. 15 : \E t \in vtx_writes[i] : 4 * t[1] = 2 ^ MaxVtxLog2
====
